---- MODULE Spec2Model ----
(***************************************************************************)
(* Replicated multi-version database: Serializable Snapshot Isolation with *)
(* the Available Copies protocol (src/src/transaction_manager.py,           *)
(* src/src/site_manager.py, src/src/models.py, src/main.py).                *)
(*                                                                         *)
(* One action per input command of main.process_line; every action ticks   *)
(* the logical clock first and then runs the whole handler.                *)
(***************************************************************************)
EXTENDS Integers, Sequences, FiniteSets, TLC

\* ------------------------------------------------- topology and bounds
\* The code runs 10 sites and 20 variables; the model keeps the placement
\* rule on a topology of two sites and two variables: x1 is stored at one
\* site only, x2 at every site.
Sites == {1, 2}
Vars == {1, 2}

\* transaction ids, in the order the input begins them
NumTids == 3
TidOrder == <<"T1", "T2", "T3", "T4">>
Tids == {TidOrder[i] : i \in 1..NumTids}

\* number of input lines of a run, per specification
MaxTime == 6
MaxTxnTime == 8
MaxSerialTime == 7
MaxLiveTime == 5
MaxSiteTime == 7
MaxAllTime == 5
MaxChainTime == 10
MaxEndedTime == 7
MaxOrderTime == 9

\* Python None for integer-valued optionals.
None == -1

VARIABLES
    current_time,             \* TransactionManager.current_time
    sites,                    \* SiteManager.sites (dict site_id -> Site)
    transactions,             \* TransactionManager.transactions (dict tid -> Transaction)
    waiting_operations,       \* TransactionManager.waiting_operations
    variable_commit_history,  \* TransactionManager.variable_commit_history
    edges,                    \* TransactionManager.edges, as a set of <<from, to>>
    snapshot_reads,           \* TransactionManager.snapshot_reads
    cmd,                      \* the input line just dispatched
    output,                   \* the lines it printed
    served                    \* history: the site version behind each read_set entry

vars == <<current_time, sites, transactions, waiting_operations,
          variable_commit_history, edges, snapshot_reads, cmd, output, served>>

\* ------------------------------------------------------------- topology
is_variable_replicated(x) == x % 2 = 0

get_sites_for_variable(x) ==
    IF x % 2 = 0 THEN Sites ELSE {1 + (x % Cardinality(Sites))}

InitVersion(x) == [value |-> 10 * x, commit_time |-> 0, transaction_id |-> "init"]

\* Site.__init__ / Site._initialize_variables
InitSite(s) ==
    [is_up |-> TRUE,
     failure_history |-> <<>>,
     variables |-> [x \in {y \in Vars : s \in get_sites_for_variable(y)} |->
                      [versions |-> <<InitVersion(x)>>, is_readable |-> TRUE]]]

\* mutant: every host of the variable, up or down
get_up_sites_for_variable_all(sm, x) == get_sites_for_variable(x)

get_up_sites_for_variable(sm, x) == {s \in get_sites_for_variable(x) : sm[s].is_up}

\* ------------------------------------------------------------ Site
\* mutant: a failing site loses the versions committed to it
Site_fail_wipe(site, timestamp) ==
    [is_up |-> FALSE,
     failure_history |->
         Append(site.failure_history, [fail_time |-> timestamp, recover_time |-> None]),
     variables |-> [x \in DOMAIN site.variables |->
                      [site.variables[x] EXCEPT !.versions = <<InitVersion(x)>>]]]

\* mutant: the replicated variables lose their readability at the failure
Site_fail_unreadable(site, timestamp) ==
    [is_up |-> FALSE,
     failure_history |->
         Append(site.failure_history, [fail_time |-> timestamp, recover_time |-> None]),
     variables |-> [x \in DOMAIN site.variables |->
                      IF x % 2 = 0
                      THEN [site.variables[x] EXCEPT !.is_readable = FALSE]
                      ELSE site.variables[x]]]

Site_fail(site, timestamp) ==
    [site EXCEPT !.is_up = FALSE,
                 !.failure_history =
                     Append(@, [fail_time |-> timestamp, recover_time |-> None])]

\* mutant: the readability flags survive the recovery
Site_recover_keep_flags(site, timestamp) ==
    [site EXCEPT !.is_up = TRUE,
                 !.failure_history =
                     IF @ # <<>> THEN [@ EXCEPT ![Len(@)].recover_time = timestamp] ELSE @]

\* mutant: every variable is readable again right after the recovery
Site_recover_readable(site, timestamp) ==
    [is_up |-> TRUE,
     failure_history |->
         IF site.failure_history # <<>>
         THEN [site.failure_history EXCEPT ![Len(site.failure_history)].recover_time = timestamp]
         ELSE site.failure_history,
     variables |-> [x \in DOMAIN site.variables |->
                      [site.variables[x] EXCEPT !.is_readable = TRUE]]]

Site_recover(site, timestamp) ==
    [is_up |-> TRUE,
     failure_history |->
         IF site.failure_history # <<>>
         THEN [site.failure_history EXCEPT ![Len(site.failure_history)].recover_time = timestamp]
         ELSE site.failure_history,
     variables |-> [x \in DOMAIN site.variables |->
                      IF x % 2 = 0
                      THEN [site.variables[x] EXCEPT !.is_readable = FALSE]
                      ELSE site.variables[x]]]

\* mutant: an outage still counts at the instant of its recovery
was_up_continuously_closed(site, from_time, to_time) ==
    \A i \in 1..Len(site.failure_history) :
        LET record == site.failure_history[i] IN
        /\ ~(record.fail_time > from_time /\ record.fail_time < to_time)
        /\ ~(/\ record.fail_time <= from_time
             /\ (record.recover_time = None \/ record.recover_time >= from_time))

was_up_continuously(site, from_time, to_time) ==
    \A i \in 1..Len(site.failure_history) :
        LET record == site.failure_history[i] IN
        /\ ~(record.fail_time > from_time /\ record.fail_time < to_time)
        /\ ~(/\ record.fail_time <= from_time
             /\ (record.recover_time = None \/ record.recover_time > from_time))

get_last_recovery_time(site) ==
    IF site.failure_history = <<>> THEN 0
    ELSE LET last_record == site.failure_history[Len(site.failure_history)] IN
         IF last_record.recover_time # None /\ last_record.recover_time # 0
         THEN last_record.recover_time ELSE 0

\* mutant: the newest version whatever its commit_time
FirstVersionAt_newest(vs, timestamp) == IF vs = <<>> THEN 0 ELSE 1

\* index of the first (newest) version with commit_time <= timestamp, 0 if none
FirstVersionAt(vs, timestamp) ==
    LET I == {i \in 1..Len(vs) : vs[i].commit_time <= timestamp} IN
    IF I = {} THEN 0 ELSE CHOOSE i \in I : \A j \in I : i <= j

get_value_at_time(vs, timestamp) ==
    LET i == FirstVersionAt(vs, timestamp) IN
    IF i = 0 THEN None ELSE vs[i].value

\* mutant: every variable is gated like a replicated one
can_read_variable_gated(site, x, txn_start_time) ==
    IF ~site.is_up THEN <<FALSE, None>>
    ELSE IF x \notin DOMAIN site.variables THEN <<FALSE, None>>
    ELSE LET var == site.variables[x]
             last_recovery == get_last_recovery_time(site)
             i == FirstVersionAt(var.versions, txn_start_time)
         IN
         IF last_recovery > 0 /\ txn_start_time >= last_recovery /\ ~var.is_readable
         THEN <<FALSE, None>>
         ELSE IF i # 0 /\ was_up_continuously(site, var.versions[i].commit_time,
                                               txn_start_time)
         THEN <<TRUE, var.versions[i].value>>
         ELSE <<FALSE, None>>

\* <<can_read, value>>
can_read_variable(site, x, txn_start_time) ==
    IF ~site.is_up THEN <<FALSE, None>>
    ELSE IF x \notin DOMAIN site.variables THEN <<FALSE, None>>
    ELSE IF x % 2 = 1
    THEN LET value == get_value_at_time(site.variables[x].versions, txn_start_time) IN
         <<value # None, value>>
    ELSE LET var == site.variables[x]
             last_recovery == get_last_recovery_time(site)
             txn_began_after_recovery ==
                 last_recovery > 0 /\ txn_start_time >= last_recovery
             i == FirstVersionAt(var.versions, txn_start_time)
         IN
         IF txn_began_after_recovery /\ ~var.is_readable THEN <<FALSE, None>>
         ELSE IF i # 0 /\ was_up_continuously(site, var.versions[i].commit_time,
                                               txn_start_time)
         THEN <<TRUE, var.versions[i].value>>
         ELSE <<FALSE, None>>

\* mutant: the new version is put at the end of the list
Site_write_variable_append(site, x, value, commit_time, txn_id) ==
    IF x \notin DOMAIN site.variables THEN site
    ELSE [site EXCEPT !.variables[x] =
            [versions |-> Append(@.versions, [value |-> value, commit_time |-> commit_time,
                                              transaction_id |-> txn_id]),
             is_readable |-> TRUE]]

Site_write_variable(site, x, value, commit_time, txn_id) ==
    IF x \notin DOMAIN site.variables THEN site
    ELSE [site EXCEPT !.variables[x] =
            [versions |-> <<[value |-> value, commit_time |-> commit_time,
                             transaction_id |-> txn_id]>> \o @.versions,
             is_readable |-> TRUE]]

\* the version whose value can_read_variable hands out
ServedVersion(site, x, txn_start_time) ==
    LET vs == site.variables[x].versions IN vs[FirstVersionAt(vs, txn_start_time)]

\* Site.dump / SiteManager.dump_all: one entry per (site, hosted variable)
Line(kind, tid, x, value, where) ==
    [kind |-> kind, tid |-> tid, var |-> x, value |-> value, sites |-> where]

\* mutant: the sites that are down are left out of the dump
dump_all_up(sm) ==
    SelectSeq([k \in 1..(Cardinality(Sites) * Cardinality(Vars)) |->
                 LET s == 1 + ((k - 1) \div Cardinality(Vars))
                     x == 1 + ((k - 1) % Cardinality(Vars))
                 IN IF x \in DOMAIN sm[s].variables /\ sm[s].is_up
                    THEN Line("dump", "", x, sm[s].variables[x].versions[1].value, {s})
                    ELSE Line("skip", "", x, 0, {s})],
              LAMBDA l : l.kind # "skip")

\* SiteManager.dump_all over Site.dump: one line per site and hosted variable
dump_all(sm) ==
    SelectSeq([k \in 1..(Cardinality(Sites) * Cardinality(Vars)) |->
                 LET s == 1 + ((k - 1) \div Cardinality(Vars))
                     x == 1 + ((k - 1) % Cardinality(Vars))
                 IN IF x \in DOMAIN sm[s].variables
                    THEN Line("dump", "", x, sm[s].variables[x].versions[1].value, {s})
                    ELSE Line("skip", "", x, 0, {s})],
              LAMBDA l : l.kind # "skip")

\* ------------------------------------------------------------------ Init
Command(op, tid, x, value, site) ==
    [op |-> op, tid |-> tid, var |-> x, value |-> value, site |-> site]

Init ==
    /\ current_time = 0
    /\ sites = [s \in Sites |-> InitSite(s)]
    /\ transactions = <<>>
    /\ waiting_operations = <<>>
    /\ variable_commit_history = [x \in Vars |-> <<>>]
    /\ edges = {}
    /\ snapshot_reads = [t \in Tids |-> <<>>]
    /\ cmd = Command("none", "", 0, 0, 0)
    /\ output = <<>>
    /\ served = [t \in Tids |-> <<>>]

\* ------------------------------------------------------- TransactionManager
NewTransaction(now) ==
    [start_time |-> now, status |-> "active", read_set |-> <<>>, write_set |-> <<>>,
     sites_written |-> {}, site_write_time |-> <<>>, abort_reason |-> "",
     waiting_for |-> None]

\* mutant: a command naming an unknown transaction begins it
not_found_begins(tid) ==
    /\ output' = <<Line("error", tid, 0, 0, {})>>
    /\ transactions' = (tid :> NewTransaction(current_time + 1)) @@ transactions
    /\ UNCHANGED <<sites, waiting_operations, variable_commit_history, edges,
                   snapshot_reads, served>>

\* read, write and end_transaction on an id that is not in self.transactions:
\* the error line and nothing else
not_found(tid) ==
    /\ output' = <<Line("error", tid, 0, 0, {})>>
    /\ UNCHANGED <<sites, transactions, waiting_operations, variable_commit_history,
                   edges, snapshot_reads, served>>

\* mutant: no transaction is taken for aborted
is_aborted_never(txn) == FALSE

\* the early return of read, write and end_transaction
is_aborted(txn) == txn.status = "aborted"

Live(txn) == txn.status \notin {"aborted", "committed"}

\* process_line ticks before dispatch
\* mutant: the clock is advanced twice for one line
Tick_twice(c) ==
    /\ current_time' = current_time + 2
    /\ cmd' = c

\* main.process_line: tick() before the line is looked at
Tick(c) ==
    /\ current_time' = current_time + 1
    /\ cmd' = c

_get_snapshot_writer(x, txn_start_time) ==
    LET commits == variable_commit_history[x]
        I == {i \in 1..Len(commits) : commits[i][1] <= txn_start_time /\ commits[i][1] > 0}
    IN IF I = {} THEN "init"
       ELSE commits[CHOOSE i \in I : \A j \in I : commits[j][1] <= commits[i][1]][2]

\* edges inserted by _check_rw_on_read
_check_rw_on_read(txns, reader, x) ==
    {<<reader, other>> : other \in
        {o \in DOMAIN txns : o # reader /\ Live(txns[o]) /\ x \in DOMAIN txns[o].write_set}}

\* edges inserted by _check_dependencies_on_write
_check_dependencies_on_write(txns, writer, x) ==
    {<<other, writer>> : other \in
        {o \in DOMAIN txns : o # writer /\ Live(txns[o]) /\ x \in DOMAIN txns[o].read_set}}

\* sites, in enumeration order, that answer the snapshot read
readable_sites(sm, x, txn_start_time) ==
    {s \in get_sites_for_variable(x) :
        sm[s].is_up /\ can_read_variable(sm[s], x, txn_start_time)[1]
                    /\ can_read_variable(sm[s], x, txn_start_time)[2] # None}

FirstOf(S) == CHOOSE s \in S : \A r \in S : s <= r

\* mutant: only hosts that are up now are asked for a valid version
any_valid_site_up(sm, x, txn_start_time) ==
    \E s \in get_up_sites_for_variable(sm, x) :
        LET vs == sm[s].variables[x].versions
            i == FirstVersionAt(vs, txn_start_time)
        IN i # 0 /\ was_up_continuously(sm[s], vs[i].commit_time, txn_start_time)

\* read(): some host holds a snapshot version it was up for ever since
any_valid_site(sm, x, txn_start_time) ==
    \E s \in get_sites_for_variable(x) :
        /\ x \in DOMAIN sm[s].variables
        /\ LET vs == sm[s].variables[x].versions
               i == FirstVersionAt(vs, txn_start_time)
           IN i # 0 /\ was_up_continuously(sm[s], vs[i].commit_time, txn_start_time)

\* _abort_transaction, on its three pieces of state
Abort_txns(txns, tid, reason) ==
    [txns EXCEPT ![tid].status = "aborted", ![tid].abort_reason = reason]

\* mutant: the queue is left as it is
Abort_ops_keep(ops, tid) == ops

Abort_ops(ops, tid) == SelectSeq(ops, LAMBDA op : op.transaction_id # tid)

\* mutant: the edges are left as they are
Abort_edges_keep(E, tid) == E

Abort_edges(E, tid) == {e \in E : e[1] # tid /\ e[2] # tid}

\* mutant: the cached read is consulted before the buffered write
buffered_value_read_first(txn, x) ==
    IF x \in DOMAIN txn.read_set THEN txn.read_set[x].value
    ELSE IF x \in DOMAIN txn.write_set THEN txn.write_set[x].value
    ELSE None

\* mutant: only the buffered write is held, a repeated read goes to the sites
buffered_value_write_only(txn, x) ==
    IF x \in DOMAIN txn.write_set THEN txn.write_set[x].value ELSE None

\* read: the value a transaction already holds for x, its own buffered write
\* first and a repeated read second; None when it holds neither
buffered_value(txn, x) ==
    IF x \in DOMAIN txn.write_set THEN txn.write_set[x].value
    ELSE IF x \in DOMAIN txn.read_set THEN txn.read_set[x].value
    ELSE None

begin_transaction(tid) ==
    /\ Tick(Command("begin", tid, 0, 0, 0))
    /\ transactions' = [t \in DOMAIN transactions \cup {tid} |->
                          IF t = tid THEN NewTransaction(current_time + 1)
                          ELSE transactions[t]]
    /\ output' = <<Line("begins", tid, 0, 0, {})>>
    /\ UNCHANGED <<sites, waiting_operations, variable_commit_history, edges,
                   snapshot_reads, served>>

read(tid, x) ==
    /\ Tick(Command("R", tid, x, 0, 0))
    /\ IF tid \notin DOMAIN transactions
       THEN not_found(tid)
       ELSE LET txn == transactions[tid]
                ok == readable_sites(sites, x, txn.start_time)
            IN
            IF is_aborted(txn)
            THEN /\ output' = <<>>
                 /\ UNCHANGED <<sites, transactions, waiting_operations,
                                variable_commit_history, edges, snapshot_reads, served>>
            ELSE IF buffered_value(txn, x) # None
            THEN /\ output' = <<Line("value", "", x, buffered_value(txn, x), {})>>
                 /\ UNCHANGED <<sites, transactions, waiting_operations,
                                variable_commit_history, edges, snapshot_reads, served>>
            ELSE IF ok # {}
            THEN LET site_id == FirstOf(ok)
                     value == can_read_variable(sites[site_id], x, txn.start_time)[2]
                 IN
                 /\ transactions' = [transactions EXCEPT ![tid].read_set =
                        (x :> [value |-> value, site |-> site_id]) @@ @]
                 /\ snapshot_reads' = [snapshot_reads EXCEPT ![tid] =
                        (x :> _get_snapshot_writer(x, txn.start_time)) @@ @]
                 /\ served' = [served EXCEPT ![tid] =
                        (x :> ServedVersion(sites[site_id], x, txn.start_time)) @@ @]
                 /\ edges' = edges \cup _check_rw_on_read(transactions, tid, x)
                 /\ output' = <<Line("value", "", x, value, {})>>
                 /\ UNCHANGED <<sites, waiting_operations, variable_commit_history>>
            ELSE IF is_variable_replicated(x) /\ ~any_valid_site(sites, x, txn.start_time)
            THEN /\ transactions' = Abort_txns(transactions, tid, "no_valid_site")
                 /\ waiting_operations' = Abort_ops(waiting_operations, tid)
                 /\ edges' = Abort_edges(edges, tid)
                 /\ output' = <<Line("aborts", tid, 0, 0, {})>>
                 /\ UNCHANGED <<sites, variable_commit_history, snapshot_reads, served>>
            ELSE /\ transactions' = [transactions EXCEPT ![tid].status = "waiting",
                                                         ![tid].waiting_for = x]
                 /\ waiting_operations' = Append(waiting_operations,
                        [transaction_id |-> tid, variable_name |-> x,
                         required_sites |-> get_sites_for_variable(x)])
                 /\ output' = <<Line("waiting", tid, x, 0, {})>>
                 /\ UNCHANGED <<sites, variable_commit_history, edges, snapshot_reads,
                                served>>

write(tid, x, value) ==
    /\ Tick(Command("W", tid, x, value, 0))
    /\ IF tid \notin DOMAIN transactions
       THEN not_found(tid)
       ELSE LET txn == transactions[tid]
                up_sites == get_up_sites_for_variable(sites, x)
                now == current_time + 1
            IN
            IF is_aborted(txn)
            THEN /\ output' = <<>>
                 /\ UNCHANGED <<sites, transactions, waiting_operations,
                                variable_commit_history, edges, snapshot_reads, served>>
            ELSE /\ transactions' = [transactions EXCEPT
                        ![tid].write_set = (x :> [value |-> value, sites |-> up_sites]) @@ @,
                        ![tid].sites_written = @ \cup up_sites,
                        ![tid].site_write_time =
                            [s \in (DOMAIN @) \cup up_sites |->
                                IF s \in DOMAIN @ THEN @[s] ELSE now]]
                 /\ edges' = edges \cup _check_dependencies_on_write(transactions, tid, x)
                 /\ output' = <<Line("writes", tid, x, value, up_sites)>>
                 /\ UNCHANGED <<sites, waiting_operations, variable_commit_history,
                                snapshot_reads, served>>

fail_site(k) ==
    /\ Tick(Command("fail", "", 0, 0, k))
    /\ sites' = [sites EXCEPT ![k] = Site_fail(@, current_time + 1)]
    /\ output' = <<Line("failed", "", 0, 0, {k})>>
    /\ UNCHANGED <<transactions, waiting_operations, variable_commit_history, edges,
                   snapshot_reads, served>>

dump ==
    /\ Tick(Command("dump", "", 0, 0, 0))
    /\ output' = dump_all(sites)
    /\ UNCHANGED <<sites, transactions, waiting_operations, variable_commit_history,
                   edges, snapshot_reads, served>>

\* process_line on an empty, comment or unparseable line: the tick and nothing else
no_op ==
    /\ Tick(Command("comment", "", 0, 0, 0))
    /\ output' = <<>>
    /\ UNCHANGED <<sites, transactions, waiting_operations, variable_commit_history,
                   edges, snapshot_reads, served>>

\* --------------------------------------------------------- validation
Succ(E, n) == {e[2] : e \in {d \in E : d[1] = n}}

RECURSIVE _can_reach_from_tid(_, _, _, _), ScanFrom(_, _, _, _)
\* mutant: a node met a second time ends the search as found
_can_reach_from_tid_revisit(E, from_tid, to_tid, visited) ==
    IF from_tid = to_tid \/ from_tid \in visited
    THEN [found |-> TRUE, visited |-> visited]
    ELSE ScanFrom(E, Succ(E, from_tid), to_tid, visited \cup {from_tid})

\* depth-first search over the stored edges; returns [found, visited]
_can_reach_from_tid(E, from_tid, to_tid, visited) ==
    IF from_tid = to_tid THEN [found |-> TRUE, visited |-> visited]
    ELSE IF from_tid \in visited THEN [found |-> FALSE, visited |-> visited]
    ELSE ScanFrom(E, Succ(E, from_tid), to_tid, visited \cup {from_tid})

ScanFrom(E, nexts, to_tid, visited) ==
    IF nexts = {} THEN [found |-> FALSE, visited |-> visited]
    ELSE LET next_tid == CHOOSE n \in nexts : TRUE
             r == _can_reach_from_tid(E, next_tid, to_tid, visited)
         IN IF r.found THEN r ELSE ScanFrom(E, nexts \ {next_tid}, to_tid, r.visited)

RECURSIVE _can_reach_via_committed(_, _, _, _, _, _), ScanVia(_, _, _, _, _, _)
\* search that expands committed nodes only, closed by an inferred WR step
_can_reach_via_committed(txns, E, snaps, from_tid, to_tid, visited) ==
    IF from_tid = to_tid THEN [found |-> TRUE, visited |-> visited]
    ELSE IF from_tid \in visited THEN [found |-> FALSE, visited |-> visited]
    ELSE IF from_tid \notin DOMAIN txns \/ to_tid \notin DOMAIN txns
    THEN [found |-> FALSE, visited |-> visited \cup {from_tid}]
    ELSE IF txns[from_tid].status = "committed"
    THEN LET r == ScanVia(txns, E, snaps, Succ(E, from_tid), to_tid,
                          visited \cup {from_tid})
         IN IF r.found THEN r
            ELSE [found |-> \E x \in DOMAIN txns[to_tid].read_set :
                               /\ x \in DOMAIN snaps[to_tid]
                               /\ snaps[to_tid][x] = from_tid,
                  visited |-> r.visited]
    ELSE [found |-> FALSE, visited |-> visited \cup {from_tid}]

ScanVia(txns, E, snaps, nexts, to_tid, visited) ==
    IF nexts = {} THEN [found |-> FALSE, visited |-> visited]
    ELSE LET next_tid == CHOOSE n \in nexts : TRUE
             r == _can_reach_via_committed(txns, E, snaps, next_tid, to_tid, visited)
         IN IF r.found THEN r
            ELSE ScanVia(txns, E, snaps, nexts \ {next_tid}, to_tid, r.visited)

\* first loop of _would_create_dangerous_cycle: a committed writer of a
\* variable tid writes is reachable from tid
WWClosure(txns, E, hist, tid) ==
    \E x \in DOMAIN txns[tid].write_set :
        \E i \in 1..Len(hist[x]) :
            LET committed_tid == hist[x][i][2] IN
            /\ committed_tid # tid
            /\ committed_tid \in DOMAIN txns
            /\ txns[committed_tid].status = "committed"
            /\ _can_reach_from_tid(E, tid, committed_tid, {}).found

\* second and third loops: incoming RW from X, outgoing RW to committed Y,
\* Y reaches X
PivotClosure(txns, E, snaps, tid, in_status) ==
    \E in_txn \in {o \in DOMAIN txns : <<o, tid>> \in E /\ txns[o].status = in_status} :
        \E out_txn \in {o \in DOMAIN txns : <<tid, o>> \in E
                                            /\ txns[o].status = "committed"} :
            _can_reach_via_committed(txns, E, snaps, out_txn, in_txn, {}).found

\* mutant: any outgoing RW edge to a committed transaction counts as a cycle
_would_create_dangerous_cycle_outgoing(txns, E, hist, snaps, tid) ==
    \E o \in DOMAIN txns : <<tid, o>> \in E /\ txns[o].status = "committed"

\* mutant: only the closure over committed writers is tested
_would_create_dangerous_cycle_ww(txns, E, hist, snaps, tid) == WWClosure(txns, E, hist, tid)

\* mutant: only the pivot test is made
_would_create_dangerous_cycle_pivot(txns, E, hist, snaps, tid) ==
    \/ PivotClosure(txns, E, snaps, tid, "committed")
    \/ PivotClosure(txns, E, snaps, tid, "active")

_would_create_dangerous_cycle(txns, E, hist, snaps, tid) ==
    \/ WWClosure(txns, E, hist, tid)
    \/ PivotClosure(txns, E, snaps, tid, "committed")
    \/ PivotClosure(txns, E, snaps, tid, "active")

\* mutant: only sites that are down right now count
SiteFailedAfterWrite_down(sm, txn) == \E s \in txn.sites_written : ~sm[s].is_up

\* mutant: a failure of a site the transaction only read from counts as well
SiteFailedAfterWrite_touched(sm, txn) ==
    \E s \in txn.sites_written \cup {txn.read_set[x].site : x \in DOMAIN txn.read_set} :
        \E i \in 1..Len(sm[s].failure_history) :
            sm[s].failure_history[i].fail_time > txn.start_time

\* Available-Copies rule of end_transaction
SiteFailedAfterWrite(sm, txn) ==
    \E s \in txn.sites_written :
        LET write_time == IF s \in DOMAIN txn.site_write_time
                          THEN txn.site_write_time[s] ELSE txn.start_time
        IN \E i \in 1..Len(sm[s].failure_history) :
               sm[s].failure_history[i].fail_time > write_time

\* mutant: the writer test inverted, so only the transaction's own commits count
FirstCommitterWins_self(hist, tid, txn) ==
    \E x \in DOMAIN txn.write_set :
        \E i \in 1..Len(hist[x]) :
            hist[x][i][1] > txn.start_time /\ hist[x][i][2] = tid

\* First-Committer-Wins rule of end_transaction
FirstCommitterWins(hist, tid, txn) ==
    \E x \in DOMAIN txn.write_set :
        \E i \in 1..Len(hist[x]) :
            hist[x][i][1] > txn.start_time /\ hist[x][i][2] # tid

\* mutant: every host that is up at commit, whatever was recorded at write time
sites_to_write_up(sm, x, write_sites) == get_up_sites_for_variable(sm, x)

\* _commit_transaction: the sites that receive the version of x
sites_to_write(sm, x, write_sites) == write_sites \cap get_up_sites_for_variable(sm, x)

Commit_sites(sm, tid, txn, commit_time) ==
    [s \in Sites |->
        IF \E x \in DOMAIN txn.write_set :
               s \in sites_to_write(sm, x, txn.write_set[x].sites)
        THEN [sm[s] EXCEPT !.variables =
                [x \in DOMAIN sm[s].variables |->
                    IF x \in DOMAIN txn.write_set
                       /\ s \in sites_to_write(sm, x, txn.write_set[x].sites)
                    THEN Site_write_variable(sm[s], x, txn.write_set[x].value,
                                             commit_time, tid).variables[x]
                    ELSE sm[s].variables[x]]]
        ELSE sm[s]]

Commit_history(hist, tid, txn, commit_time) ==
    [x \in Vars |-> IF x \in DOMAIN txn.write_set
                    THEN Append(hist[x], <<commit_time, tid>>) ELSE hist[x]]

\* mutant: First-Committer-Wins is tested before the site-failure rule
Verdict_fcw_first(tid) ==
    LET txn == transactions[tid] IN
    IF FirstCommitterWins(variable_commit_history, tid, txn) THEN "first_committer"
    ELSE IF SiteFailedAfterWrite(sites, txn) THEN "site_failed"
    ELSE IF _would_create_dangerous_cycle(transactions, edges, variable_commit_history,
                                          snapshot_reads, tid)
    THEN "ssi_cycle"
    ELSE ""

\* the validation verdict of end_transaction for a transaction that is
\* neither aborted nor waiting: "" when it commits
Verdict(tid) ==
    LET txn == transactions[tid] IN
    IF SiteFailedAfterWrite(sites, txn) THEN "site_failed"
    ELSE IF FirstCommitterWins(variable_commit_history, tid, txn) THEN "first_committer"
    ELSE IF _would_create_dangerous_cycle(transactions, edges, variable_commit_history,
                                          snapshot_reads, tid)
    THEN "ssi_cycle"
    ELSE ""

end_transaction(tid) ==
    /\ Tick(Command("end", tid, 0, 0, 0))
    /\ IF tid \notin DOMAIN transactions
       THEN not_found(tid)
       ELSE LET txn == transactions[tid] IN
            IF is_aborted(txn)
            THEN /\ output' = <<Line("aborts", tid, 0, 0, {})>>
                 /\ UNCHANGED <<sites, transactions, waiting_operations,
                                variable_commit_history, edges, snapshot_reads, served>>
            ELSE IF txn.status = "waiting" \/ Verdict(tid) # ""
            THEN /\ transactions' = Abort_txns(transactions, tid,
                        IF txn.status = "waiting" THEN "waiting_ended" ELSE Verdict(tid))
                 /\ waiting_operations' = Abort_ops(waiting_operations, tid)
                 /\ edges' = Abort_edges(edges, tid)
                 /\ output' = <<Line("aborts", tid, 0, 0, {})>>
                 /\ UNCHANGED <<sites, variable_commit_history, snapshot_reads, served>>
            ELSE /\ sites' = Commit_sites(sites, tid, txn, current_time + 1)
                 /\ variable_commit_history' =
                        Commit_history(variable_commit_history, tid, txn, current_time + 1)
                 /\ transactions' = [transactions EXCEPT ![tid].status = "committed"]
                 /\ output' = <<Line("commits", tid, 0, 0, {})>>
                 /\ UNCHANGED <<waiting_operations, edges, snapshot_reads, served>>

\* ------------------------------------------------------------- recovery
RECURSIVE _process_waiting_operations(_, _, _)
\* one pass over the queue; st carries the state the loop mutates
_process_waiting_operations(sm, ops, st) ==
    IF ops = <<>> THEN st
    ELSE LET op == Head(ops)
             tid == op.transaction_id
             x == op.variable_name
         IN
         IF tid \notin DOMAIN st.txns \/ st.txns[tid].status # "waiting"
         THEN _process_waiting_operations(sm, Tail(ops), st)
         ELSE LET txn == st.txns[tid]
                  ok == readable_sites(sm, x, txn.start_time)
              IN
              IF ok = {}
              THEN _process_waiting_operations(sm, Tail(ops),
                       [st EXCEPT !.still_waiting = Append(@, op)])
              ELSE LET site_id == FirstOf(ok)
                       value == can_read_variable(sm[site_id], x, txn.start_time)[2]
                   IN _process_waiting_operations(sm, Tail(ops),
                       [st EXCEPT
                          !.txns = [@ EXCEPT
                              ![tid].read_set = (x :> [value |-> value, site |-> site_id]) @@ @,
                              ![tid].status = "active",
                              ![tid].waiting_for = None],
                          !.snaps = [@ EXCEPT ![tid] =
                              (x :> _get_snapshot_writer(x, txn.start_time)) @@ @],
                          !.served = [@ EXCEPT ![tid] =
                              (x :> ServedVersion(sm[site_id], x, txn.start_time)) @@ @],
                          !.E = @ \cup _check_rw_on_read(st.txns, tid, x),
                          !.out = Append(@, Line("value", "", x, value, {}))])

recover_site(k) ==
    /\ Tick(Command("recover", "", 0, 0, k))
    /\ sites' = [sites EXCEPT ![k] = Site_recover(@, current_time + 1)]
    /\ LET st == _process_waiting_operations(
                     [sites EXCEPT ![k] = Site_recover(@, current_time + 1)],
                     waiting_operations,
                     [txns |-> transactions, snaps |-> snapshot_reads, served |-> served,
                      E |-> edges, still_waiting |-> <<>>,
                      out |-> <<Line("recovered", "", 0, 0, {k})>>])
       IN /\ transactions' = st.txns
          /\ snapshot_reads' = st.snaps
          /\ served' = st.served
          /\ edges' = st.E
          /\ waiting_operations' = st.still_waiting
          /\ output' = st.out
    /\ UNCHANGED variable_commit_history

\* ------------------------------------------------------------------ Next
\* The value of a W command.  The code stores and returns values without ever
\* inspecting them, so every W carries a value that no other W and no initial
\* version carries: a value then identifies the write it came from.
Values == {100 + current_time + 1}

\* Transaction ids are opaque and never re-used by the driver's input
\* (re-use is unspecified); the ids are handed out in a fixed order.
FreshId(tid) ==
    /\ tid \notin DOMAIN transactions
    /\ tid = TidOrder[Cardinality(DOMAIN transactions) + 1]

InTime(bound) == current_time < bound

\* every command that can change more than the clock: R, W and end name
\* transactions that have begun (ended ones included), fail and recover name
\* any site whatever its state
Next ==
    \/ \E tid \in Tids : InTime(MaxTime) /\ FreshId(tid) /\ begin_transaction(tid)
    \/ \E tid \in DOMAIN transactions, x \in Vars : InTime(MaxTime) /\ read(tid, x)
    \/ \E tid \in DOMAIN transactions, x \in Vars, value \in Values :
           InTime(MaxTime) /\ write(tid, x, value)
    \/ \E tid \in DOMAIN transactions : InTime(MaxTime) /\ end_transaction(tid)
    \/ \E k \in Sites : InTime(MaxTime) /\ fail_site(k)
    \/ \E k \in Sites : InTime(MaxTime) /\ recover_site(k)

Spec == Init /\ [][Next]_vars

LiveTids == {t \in DOMAIN transactions : Live(transactions[t])}

\* well-formed input of two transactions: no site ever fails and no command
\* names a transaction that has ended
NextTxn ==
    \/ \E tid \in {TidOrder[1], TidOrder[2]} :
           InTime(MaxTxnTime) /\ FreshId(tid) /\ begin_transaction(tid)
    \/ \E tid \in LiveTids, x \in Vars : InTime(MaxTxnTime) /\ read(tid, x)
    \/ \E tid \in LiveTids, x \in Vars, value \in Values :
           InTime(MaxTxnTime) /\ write(tid, x, value)
    \/ \E tid \in LiveTids : InTime(MaxTxnTime) /\ end_transaction(tid)

SpecTxn == Init /\ [][NextTxn]_vars

\* serial input: transactions run one after another, sites fail and recover
\* in between (a fail names an up site, a recover a down site)
NextSerial ==
    \/ \E tid \in Tids : InTime(MaxSerialTime) /\ LiveTids = {} /\ FreshId(tid)
                         /\ begin_transaction(tid)
    \/ \E tid \in LiveTids, x \in Vars : InTime(MaxSerialTime) /\ read(tid, x)
    \/ \E tid \in LiveTids, x \in Vars, value \in Values :
           InTime(MaxSerialTime) /\ write(tid, x, value)
    \/ \E tid \in LiveTids : InTime(MaxSerialTime) /\ end_transaction(tid)
    \/ \E k \in Sites : InTime(MaxSerialTime) /\ sites[k].is_up /\ fail_site(k)
    \/ \E k \in Sites : InTime(MaxSerialTime) /\ ~sites[k].is_up /\ recover_site(k)
    \/ InTime(MaxSerialTime) /\ dump

SpecSerial == Init /\ [][NextSerial]_vars

\* serial input with arbitrary site commands: a fail may name a site that
\* is already down and a recover a site that is already up
NextSite ==
    \/ \E tid \in Tids : InTime(MaxSiteTime) /\ LiveTids = {} /\ FreshId(tid)
                         /\ begin_transaction(tid)
    \/ \E tid \in LiveTids, x \in Vars : InTime(MaxSiteTime) /\ read(tid, x)
    \/ \E tid \in LiveTids, x \in Vars, value \in Values :
           InTime(MaxSiteTime) /\ write(tid, x, value)
    \/ \E tid \in LiveTids : InTime(MaxSiteTime) /\ end_transaction(tid)
    \/ \E k \in Sites : InTime(MaxSiteTime) /\ fail_site(k)
    \/ \E k \in Sites : InTime(MaxSiteTime) /\ recover_site(k)

SpecSite == Init /\ [][NextSite]_vars

\* serial input whose R, W and end may also name a transaction that has
\* ended; a fail names an up site, a recover a down site
NextEnded ==
    \/ \E tid \in Tids : InTime(MaxEndedTime) /\ LiveTids = {} /\ FreshId(tid)
                         /\ begin_transaction(tid)
    \/ \E tid \in DOMAIN transactions, x \in Vars : InTime(MaxEndedTime) /\ read(tid, x)
    \/ \E tid \in DOMAIN transactions, x \in Vars, value \in Values :
           InTime(MaxEndedTime) /\ write(tid, x, value)
    \/ \E tid \in DOMAIN transactions : InTime(MaxEndedTime) /\ end_transaction(tid)
    \/ \E k \in Sites : InTime(MaxEndedTime) /\ sites[k].is_up /\ fail_site(k)
    \/ \E k \in Sites : InTime(MaxEndedTime) /\ ~sites[k].is_up /\ recover_site(k)

SpecEnded == Init /\ [][NextEnded]_vars

\* input of two overlapping transactions, each reading before it writes and
\* reading and writing a variable at most once, during which sites fail; no
\* command names a transaction that has ended
NextOrder ==
    \/ \E tid \in {TidOrder[1], TidOrder[2]} :
           InTime(MaxOrderTime) /\ FreshId(tid) /\ begin_transaction(tid)
    \/ \E tid \in LiveTids, x \in Vars :
           /\ InTime(MaxOrderTime)
           /\ x \notin DOMAIN transactions[tid].read_set
           /\ transactions[tid].write_set = <<>>
           /\ read(tid, x)
    \/ \E tid \in LiveTids, x \in Vars, value \in Values :
           /\ InTime(MaxOrderTime)
           /\ x \notin DOMAIN transactions[tid].write_set
           /\ write(tid, x, value)
    \/ \E tid \in LiveTids : InTime(MaxOrderTime) /\ end_transaction(tid)
    \/ \E k \in Sites : InTime(MaxOrderTime) /\ sites[k].is_up /\ fail_site(k)

SpecOrder == Init /\ [][NextOrder]_vars

\* every input line: R, W and end name any transaction id (begun, ended or
\* never begun), fail and recover any site, and dump, blank, comment and
\* unparseable lines are included
NextAll ==
    \/ \E tid \in Tids : InTime(MaxAllTime) /\ FreshId(tid) /\ begin_transaction(tid)
    \/ \E tid \in Tids, x \in Vars : InTime(MaxAllTime) /\ read(tid, x)
    \/ \E tid \in Tids, x \in Vars, value \in Values :
           InTime(MaxAllTime) /\ write(tid, x, value)
    \/ \E tid \in Tids : InTime(MaxAllTime) /\ end_transaction(tid)
    \/ \E k \in Sites : InTime(MaxAllTime) /\ fail_site(k)
    \/ \E k \in Sites : InTime(MaxAllTime) /\ recover_site(k)
    \/ InTime(MaxAllTime) /\ dump
    \/ InTime(MaxAllTime) /\ no_op

SpecAll == Init /\ [][NextAll]_vars

\* input of three transactions of which at most two overlap, each reading
\* before it writes and reading and writing a variable at most once; no site
\* fails and no command names a transaction that has ended
NextChain ==
    \/ \E tid \in {TidOrder[1], TidOrder[2], TidOrder[3]} :
           /\ InTime(MaxChainTime)
           /\ FreshId(tid)
           /\ \A a \in LiveTids, b \in LiveTids : a = b
           /\ begin_transaction(tid)
    \/ \E tid \in LiveTids, x \in Vars :
           /\ InTime(MaxChainTime)
           /\ x \notin DOMAIN transactions[tid].read_set
           /\ transactions[tid].write_set = <<>>
           /\ read(tid, x)
    \/ \E tid \in LiveTids, x \in Vars, value \in Values :
           /\ InTime(MaxChainTime)
           /\ x \notin DOMAIN transactions[tid].write_set
           /\ write(tid, x, value)
    \/ \E tid \in LiveTids : InTime(MaxChainTime) /\ end_transaction(tid)

SpecChain == Init /\ [][NextChain]_vars

\* input under which parked reads are observed: a down site can always be
\* recovered, also after the last other input line, and every down site is
\* eventually recovered; end is issued for active transactions only
RecoverDown(k) == ~sites[k].is_up /\ recover_site(k)

NextLive ==
    \/ \E tid \in Tids : InTime(MaxLiveTime) /\ FreshId(tid) /\ begin_transaction(tid)
    \/ \E tid \in LiveTids, x \in Vars : InTime(MaxLiveTime) /\ read(tid, x)
    \/ \E tid \in LiveTids, x \in Vars, value \in Values :
           InTime(MaxLiveTime) /\ write(tid, x, value)
    \/ \E tid \in LiveTids : InTime(MaxLiveTime) /\ transactions[tid].status = "active"
                             /\ end_transaction(tid)
    \/ \E k \in Sites : InTime(MaxLiveTime) /\ sites[k].is_up /\ fail_site(k)
    \/ \E k \in Sites : RecoverDown(k)

\* the input line recover(k) for a down site k
RecoverLine(k) == ~sites[k].is_up /\ Tick(Command("recover", "", 0, 0, k))

SpecLive ==
    Init /\ [][NextLive]_vars /\ \A k \in Sites : WF_<<current_time, cmd>>(RecoverLine(k))

\* ===================================================================
\* Properties
\* ===================================================================
Begun == DOMAIN transactions

Committed == {t \in Begun : transactions[t].status = "committed"}

RECURSIVE ReachSet(_, _)
ReachSet(E, S) ==
    LET N == S \cup {e[2] : e \in {d \in E : d[1] \in S}} IN
    IF N = S THEN S ELSE ReachSet(E, N)

HasCycle(E) == \E e \in E : e[1] \in ReachSet(E, {e[2]})

\* the writer of the version of x that replaced the one committed at time ct
Overwriters(x, ct) ==
    LET h == variable_commit_history[x]
        I == {i \in 1..Len(h) : h[i][1] > ct}
    IN IF I = {} THEN {} ELSE {h[CHOOSE i \in I : \A j \in I : i <= j][2]}

\* the dependencies among committed transactions: WR (reader saw the writer's
\* version), WW (consecutive committed versions), RW (reader's version was
\* overwritten)
DependencyGraph ==
    LET WR == {<<served[r][x].transaction_id, r>> :
                  <<r, x>> \in {p \in Committed \X Vars : p[2] \in DOMAIN served[p[1]]}}
        WW == UNION {{<<variable_commit_history[x][i][2],
                        variable_commit_history[x][i + 1][2]>> :
                         i \in 1..(Len(variable_commit_history[x]) - 1)} : x \in Vars}
        RW == UNION {{<<p[1], w>> : w \in Overwriters(p[2], served[p[1]][p[2]].commit_time)} :
                        p \in {q \in Committed \X Vars : q[2] \in DOMAIN served[q[1]]}}
    IN {e \in WR \cup WW \cup RW :
            e[1] # e[2] /\ e[1] \in Committed /\ e[2] \in Committed}

\* C1: the serialization graph (RW, WR and WW edges) over the committed
\* transactions is acyclic in every reachable state.
C1_CommittedGraphAcyclic == ~HasCycle(DependencyGraph)
\* the stored versions of x whose value is v, committed at or before ts by
\* "init" or by a transaction with a commit on record
SnapshotVersions(sm, hist, x, v, ts) ==
    {ver \in UNION {{sm[s].variables[x].versions[i] :
                        i \in 1..Len(sm[s].variables[x].versions)} :
                    s \in get_sites_for_variable(x)} :
        /\ ver.value = v
        /\ ver.commit_time <= ts
        /\ \/ ver.transaction_id = "init"
           \/ \E i \in 1..Len(hist[x]) : hist[x][i] = <<ver.commit_time, ver.transaction_id>>}

ReadSetFromSnapshot ==
    \A t \in Begun : \A x \in DOMAIN transactions[t].read_set :
        SnapshotVersions(sites, variable_commit_history, x,
                         transactions[t].read_set[x].value,
                         transactions[t].start_time) # {}

\* an R command on a variable the transaction has not written that printed a value
ReturnedSiteValue ==
    /\ cmd'.op = "R"
    /\ cmd'.tid \in Begun
    /\ cmd'.var \notin DOMAIN transactions[cmd'.tid].write_set
    /\ output' # <<>>
    /\ output'[1].kind = "value"

\* C2: every value a transaction is handed for a variable it has not written
\* (fresh read, cached read, read resumed after a recovery) is the value of a
\* stored version committed at or before the transaction's start_time by
\* "init" or by a transaction that has committed; never a later version.
C2_SnapshotReads ==
    [][/\ ReadSetFromSnapshot'
       /\ ReturnedSiteValue =>
            SnapshotVersions(sites', variable_commit_history', cmd'.var,
                             output'[1].value,
                             transactions[cmd'.tid].start_time) # {}]_vars

\* C2 witness: a read served after a later version of the variable had been
\* committed, returning the older snapshot value.
C2_Witness ==
    /\ cmd.op = "R"
    /\ output # <<>> /\ output[1].kind = "value"
    /\ cmd.tid \in Begun
    /\ cmd.var \notin DOMAIN transactions[cmd.tid].write_set
    /\ cmd.var \in DOMAIN transactions[cmd.tid].read_set
    /\ output[1].value = transactions[cmd.tid].read_set[cmd.var].value
    /\ \E s \in get_sites_for_variable(cmd.var) :
           sites[s].variables[cmd.var].versions[1].commit_time
               > transactions[cmd.tid].start_time
\* the commit on record for x with the greatest commit_time <= ts
LatestCommitAt(x, ts) ==
    LET h == variable_commit_history[x]
        I == {i \in 1..Len(h) : h[i][1] <= ts}
    IN IF I = {} THEN <<0, "init">>
       ELSE h[CHOOSE i \in I : \A j \in I : h[j][1] <= h[i][1]]

\* C3: a snapshot read served from a site returns the version of the latest
\* commit on record at or before the reader's start_time (the initial version
\* when there is none), and the writer recorded in snapshot_reads is the
\* writer of the version returned.
C3_ReadsLatestCommit ==
    \A t \in Begun : \A x \in DOMAIN transactions[t].read_set :
        /\ served[t][x].value = transactions[t].read_set[x].value
        /\ <<served[t][x].commit_time, served[t][x].transaction_id>>
               = LatestCommitAt(x, transactions[t].start_time)
        /\ snapshot_reads[t][x] = served[t][x].transaction_id
\* committed writers of one variable never overlap: of two commits of x by
\* different transactions, the later writer began after the earlier commit
WritersSerial ==
    \A x \in Vars : \A i, j \in 1..Len(variable_commit_history[x]) :
        LET a == variable_commit_history[x][i]
            b == variable_commit_history[x][j]
        IN (i < j /\ a[2] # b[2]) =>
               /\ a[1] < b[1]
               /\ a[1] < transactions[b[2]].start_time

\* C4: First Committer Wins.  Two different transactions that both committed
\* a write of the same variable did not overlap (one committed before the
\* other began), and end(T) aborts T whenever another transaction has a commit
\* of a variable in T.write_set on record after T.start_time.
C4_FirstCommitterWins ==
    [][/\ WritersSerial'
       /\ (/\ cmd'.op = "end"
           /\ cmd'.tid \in Begun
           /\ FirstCommitterWins(variable_commit_history, cmd'.tid,
                                 transactions[cmd'.tid]))
          => transactions'[cmd'.tid].status = "aborted"]_vars

\* C4 witness: end(T) has just aborted T because a concurrent transaction
\* committed one of T's written variables first.
C4_Witness ==
    /\ cmd.op = "end"
    /\ cmd.tid \in Begun
    /\ transactions[cmd.tid].status = "aborted"
    /\ transactions[cmd.tid].abort_reason = "first_committer"
    /\ \E x \in DOMAIN transactions[cmd.tid].write_set :
           \E i \in 1..Len(variable_commit_history[x]) :
               /\ variable_commit_history[x][i][2] # cmd.tid
               /\ variable_commit_history[x][i][1] > transactions[cmd.tid].start_time
\* the command just run was end(t) and it committed t
JustCommitted(t) ==
    /\ cmd.op = "end" /\ cmd.tid = t
    /\ output = <<Line("commits", t, 0, 0, {})>>

\* site s has not failed since t first wrote to it and is up
UpSinceWrite(t, s) ==
    /\ sites[s].is_up
    /\ s \in DOMAIN transactions[t].site_write_time
    /\ \A i \in 1..Len(sites[s].failure_history) :
           sites[s].failure_history[i].fail_time < transactions[t].site_write_time[s]

\* C5: Available Copies.  When end(T) commits T, every site in
\* T.sites_written is up and has not failed since T's first write to it; and
\* end(T) aborts T whenever a site in T.sites_written has a failure after
\* site_write_time, recovered or not.
C5_AvailableCopies ==
    [][/\ \A t \in Tids : JustCommitted(t)' =>
              \A s \in transactions'[t].sites_written : UpSinceWrite(t, s)'
       /\ (/\ cmd'.op = "end"
           /\ cmd'.tid \in Begun
           /\ SiteFailedAfterWrite(sites, transactions[cmd'.tid]))
          => transactions'[cmd'.tid].status = "aborted"]_vars

\* C5 witness: end(T) has just aborted T for a site that failed after T wrote
\* to it, although every site T wrote to is up again.
C5_Witness ==
    /\ cmd.op = "end"
    /\ cmd.tid \in Begun
    /\ transactions[cmd.tid].status = "aborted"
    /\ transactions[cmd.tid].abort_reason = "site_failed"
    /\ \A s \in transactions[cmd.tid].sites_written : sites[s].is_up
\* C6 (as claimed): a transaction that has issued no write is never aborted.
C6_ReadOnlyNeverAborted ==
    \A t \in Begun :
        transactions[t].write_set = <<>> => transactions[t].status # "aborted"

\* C6 (amended): validation never aborts a transaction with an empty
\* write_set: end(T) commits it unless T is waiting or already aborted, and a
\* read-only transaction is aborted only by a read that found no valid replica
\* or by an end issued while it was waiting.
C6_ReadOnlyPassesValidation ==
    [][/\ \A t \in DOMAIN transactions' :
              (/\ transactions'[t].write_set = <<>>
               /\ transactions'[t].status = "aborted")
              => transactions'[t].abort_reason \in {"no_valid_site", "waiting_ended"}
       /\ (/\ cmd'.op = "end"
           /\ cmd'.tid \in Begun
           /\ transactions[cmd'.tid].write_set = <<>>
           /\ transactions[cmd'.tid].status \in {"active", "committed"})
          => transactions'[cmd'.tid].status = "committed"]_vars

\* C6 witness: a read-only transaction has just committed although a
\* transaction that overwrote what it read committed before it.
C6_Witness ==
    \E t \in Begun :
        /\ JustCommitted(t)
        /\ transactions[t].write_set = <<>>
        /\ transactions[t].read_set # <<>>
        /\ \E o \in Begun : <<t, o>> \in edges /\ transactions[o].status = "committed"
\* C7: a W issued while no host of the variable is up is buffered with an
\* empty site set and leaves the status alone, and the transaction then
\* aborts at end.
C7_EmptyWriteAbortsAtEnd ==
    [][/\ (/\ cmd'.op = "W"
           /\ cmd'.tid \in Begun
           /\ transactions[cmd'.tid].status # "aborted"
           /\ get_up_sites_for_variable(sites, cmd'.var) = {})
          => /\ transactions'[cmd'.tid].status = transactions[cmd'.tid].status
             /\ transactions'[cmd'.tid].write_set[cmd'.var]
                    = [value |-> cmd'.value, sites |-> {}]
       /\ (/\ cmd'.op = "end"
           /\ cmd'.tid \in Begun
           /\ \E x \in DOMAIN transactions[cmd'.tid].write_set :
                  transactions[cmd'.tid].write_set[x].sites = {})
          => transactions'[cmd'.tid].status = "aborted"]_vars

\* C8: a commit prepends (value, commit_time = clock, writer) for every
\* written variable at exactly the sites recorded at write time, all of them
\* up; no other step and no other site changes a version list, so nothing is
\* ever stored at a down site or at a site that was down at write time.
C8_CommitInstallsAtRecordedSites ==
    [][\A s \in Sites : \A x \in DOMAIN sites[s].variables :
          IF /\ cmd'.op = "end"
             /\ cmd'.tid \in Begun
             /\ output' = <<Line("commits", cmd'.tid, 0, 0, {})>>
             /\ x \in DOMAIN transactions[cmd'.tid].write_set
             /\ s \in transactions[cmd'.tid].write_set[x].sites
          THEN /\ sites[s].is_up
               /\ sites'[s].variables[x].versions =
                      <<[value |-> transactions[cmd'.tid].write_set[x].value,
                         commit_time |-> current_time',
                         transaction_id |-> cmd'.tid]>>
                      \o sites[s].variables[x].versions
          ELSE sites'[s].variables[x].versions = sites[s].variables[x].versions]_vars

\* C8 witness: a transaction has just committed a write whose recorded sites
\* leave out a host that was down at write time and is up at the commit.
C8_Witness ==
    \E t \in Begun : \E x \in DOMAIN transactions[t].write_set :
        /\ JustCommitted(t)
        /\ transactions[t].write_set[x].sites # {}
        /\ \E s \in get_sites_for_variable(x) \ transactions[t].write_set[x].sites :
               sites[s].is_up
\* C9: every stored version other than the initial one was written by a
\* transaction whose status is committed, and a transaction whose status is
\* aborted has no version at any site and no entry in the commit history.
C9_VersionsWrittenByCommitted ==
    /\ \A s \in Sites : \A x \in DOMAIN sites[s].variables :
           \A i \in 1..Len(sites[s].variables[x].versions) :
               LET w == sites[s].variables[x].versions[i].transaction_id IN
               w # "init" => /\ w \in Begun
                             /\ transactions[w].status = "committed"
    /\ \A x \in DOMAIN variable_commit_history :
           \A i \in 1..Len(variable_commit_history[x]) :
               LET w == variable_commit_history[x][i][2] IN
               w \in Begun /\ transactions[w].status # "aborted"

\* C10: a read by a non-aborted transaction of a variable it has written
\* prints the buffered value and changes nothing but the clock: no site is
\* consulted, the transaction is neither parked nor aborted, and no read_set
\* entry or edge is added.
C10_ReadOwnWrite ==
    [][(/\ cmd'.op = "R"
        /\ cmd'.tid \in Begun
        /\ transactions[cmd'.tid].status # "aborted"
        /\ cmd'.var \in DOMAIN transactions[cmd'.tid].write_set)
       => /\ output' = <<Line("value", "", cmd'.var,
                            transactions[cmd'.tid].write_set[cmd'.var].value, {})>>
          /\ UNCHANGED <<sites, transactions, waiting_operations,
                         variable_commit_history, edges, snapshot_reads, served>>]_vars

\* C10 witness: a transaction has just read back its own write of a variable
\* it had read before the write, while every host of the variable is down.
C10_Witness ==
    /\ cmd.op = "R"
    /\ cmd.tid \in Begun
    /\ transactions[cmd.tid].status = "active"
    /\ cmd.var \in DOMAIN transactions[cmd.tid].write_set
    /\ cmd.var \in DOMAIN transactions[cmd.tid].read_set
    /\ transactions[cmd.tid].read_set[cmd.var].value
           # transactions[cmd.tid].write_set[cmd.var].value
    /\ transactions[cmd.tid].write_set[cmd.var].sites # {}
    /\ get_up_sites_for_variable(sites, cmd.var) = {}
    /\ output = <<Line("value", "", cmd.var,
                       transactions[cmd.tid].write_set[cmd.var].value, {})>>
\* C11: a read_set entry, once set, is never changed or removed, and a read
\* by a non-aborted transaction of a variable it has read and not written
\* prints the value of that entry, whatever was committed, failed or
\* recovered since.
C11_RepeatableRead ==
    [][/\ \A t \in Begun : \A x \in DOMAIN transactions[t].read_set :
              /\ t \in DOMAIN transactions'
              /\ x \in DOMAIN transactions'[t].read_set
              /\ transactions'[t].read_set[x] = transactions[t].read_set[x]
       /\ (/\ cmd'.op = "R"
           /\ cmd'.tid \in Begun
           /\ transactions[cmd'.tid].status # "aborted"
           /\ cmd'.var \in DOMAIN transactions[cmd'.tid].read_set
           /\ cmd'.var \notin DOMAIN transactions[cmd'.tid].write_set)
          => output' = <<Line("value", "", cmd'.var,
                              transactions[cmd'.tid].read_set[cmd'.var].value, {})>>]_vars

\* C11 witness: a transaction has just read again a variable whose read_set
\* entry came from a site that has failed since and is still down.
C11_Witness ==
    /\ cmd.op = "R"
    /\ cmd.tid \in Begun
    /\ transactions[cmd.tid].status = "active"
    /\ cmd.var \in DOMAIN transactions[cmd.tid].read_set
    /\ cmd.var \notin DOMAIN transactions[cmd.tid].write_set
    /\ ~sites[transactions[cmd.tid].read_set[cmd.var].site].is_up
    /\ output = <<Line("value", "", cmd.var,
                       transactions[cmd.tid].read_set[cmd.var].value, {})>>
\* no failure interval [fail_time, recover_time) of the site meets [a, b)
NoOutageIn(site, a, b) ==
    \A i \in 1..Len(site.failure_history) :
        LET r == site.failure_history[i] IN
        ~(r.fail_time < b /\ (r.recover_time = None \/ r.recover_time > a))

\* the site hosts x and was up from the commit of its newest version at or
\* before start until start
HoldsValidVersion(site, x, start) ==
    /\ x \in DOMAIN site.variables
    /\ \E i \in 1..Len(site.variables[x].versions) :
           LET v == site.variables[x].versions[i] IN
           /\ v.commit_time <= start
           /\ \A j \in 1..Len(site.variables[x].versions) :
                  site.variables[x].versions[j].commit_time <= start
                      => site.variables[x].versions[j].commit_time <= v.commit_time
           /\ NoOutageIn(site, v.commit_time, start)

\* the command to run is a read that no cache and no up site can answer
UnservedRead(c) ==
    /\ c.op = "R"
    /\ c.tid \in Begun
    /\ transactions[c.tid].status # "aborted"
    /\ c.var \notin DOMAIN transactions[c.tid].write_set
    /\ c.var \notin DOMAIN transactions[c.tid].read_set
    /\ readable_sites(sites, c.var, transactions[c.tid].start_time) = {}

\* C12: a read that no up site can serve aborts the transaction exactly when
\* the variable is replicated and no host, up or down, holds a valid version
\* for the snapshot; in every other case the read is parked: status waiting,
\* waiting_for the variable, one record appended to the queue.  A read of a
\* non-replicated variable whose host is down therefore always parks.
C12_AbortOrPark ==
    [][UnservedRead(cmd') =>
         LET tid == cmd'.tid
             x == cmd'.var
             n == Len(waiting_operations)
         IN
         IF /\ is_variable_replicated(x)
            /\ ~\E s \in get_sites_for_variable(x) :
                   HoldsValidVersion(sites[s], x, transactions[tid].start_time)
         THEN /\ transactions'[tid].status = "aborted"
              /\ output' = <<Line("aborts", tid, 0, 0, {})>>
         ELSE /\ transactions'[tid].status = "waiting"
              /\ transactions'[tid].waiting_for = x
              /\ transactions'[tid].read_set = transactions[tid].read_set
              /\ Len(waiting_operations') = n + 1
              /\ SubSeq(waiting_operations', 1, n) = waiting_operations
              /\ waiting_operations'[n + 1].transaction_id = tid
              /\ waiting_operations'[n + 1].variable_name = x]_vars

\* C12 witness: a read of a replicated variable has just been parked while
\* every host is down and one of them holds a valid version.
C12_Witness ==
    /\ cmd.op = "R"
    /\ cmd.tid \in Begun
    /\ is_variable_replicated(cmd.var)
    /\ get_up_sites_for_variable(sites, cmd.var) = {}
    /\ transactions[cmd.tid].status = "waiting"
    /\ transactions[cmd.tid].waiting_for = cmd.var
    /\ output = <<Line("waiting", cmd.tid, cmd.var, 0, {})>>
    /\ \E s \in get_sites_for_variable(cmd.var) :
           HoldsValidVersion(sites[s], cmd.var, transactions[cmd.tid].start_time)
\* a queue record whose transaction is waiting
RecordWaits(txns, op) ==
    /\ op.transaction_id \in DOMAIN txns
    /\ txns[op.transaction_id].status = "waiting"

\* the record's variable can be read for its transaction at some up site
RecordServable(sm, txns, op) ==
    readable_sites(sm, op.variable_name, txns[op.transaction_id].start_time) # {}

\* C13: recover(k) serves, in that step, every queue record whose transaction
\* is waiting and whose variable is readable at some up site once k is up
\* (read recorded, status active, waiting_for cleared, record removed); the
\* records it cannot serve stay in the queue in their order, their
\* transactions still waiting.
C13_RecoveryDrainsQueue ==
    [][cmd'.op = "recover" =>
         /\ \A i \in 1..Len(waiting_operations) :
                LET op == waiting_operations[i]
                    tid == op.transaction_id
                IN RecordWaits(transactions, op) =>
                     IF RecordServable(sites', transactions, op)
                     THEN /\ op.variable_name \in DOMAIN transactions'[tid].read_set
                          /\ transactions'[tid].status = "active"
                          /\ transactions'[tid].waiting_for = None
                     ELSE transactions'[tid].status = "waiting"
         /\ SelectSeq(waiting_operations', LAMBDA op : RecordWaits(transactions, op))
                = SelectSeq(waiting_operations,
                            LAMBDA op : /\ RecordWaits(transactions, op)
                                        /\ ~RecordServable(sites', transactions, op))]_vars
\* the queue holds a record of transaction t for variable x
Parked(t, x) ==
    /\ t \in Begun
    /\ transactions[t].status = "waiting"
    /\ \E i \in 1..Len(waiting_operations) :
           /\ waiting_operations[i].transaction_id = t
           /\ waiting_operations[i].variable_name = x

\* C14: a waiting transaction leaves the waiting status only by its own end
\* or by a retry that a recovery makes succeed, and when every down site is
\* eventually recovered and no end is issued for a waiting transaction, every
\* parked read is eventually served with its transaction active again.
C14_ParkedReadResumes ==
    /\ [][\A t \in Begun :
             (transactions[t].status = "waiting" /\ transactions'[t].status # "waiting")
                 => \/ cmd'.op = "end" /\ cmd'.tid = t
                    \/ /\ cmd'.op = "recover"
                       /\ transactions'[t].status = "active"
                       /\ transactions[t].waiting_for \in DOMAIN transactions'[t].read_set]_vars
    /\ \A t \in Tids : \A x \in Vars :
           Parked(t, x) ~> (/\ t \in Begun
                            /\ transactions[t].status = "active"
                            /\ x \in DOMAIN transactions[t].read_set)
\* C15: end(T) for a waiting T aborts T: its status becomes aborted, no
\* queue record names it any more, and the step installs nothing (no site
\* and no commit history changes), whether or not a site hosting the awaited
\* variable is up.
C15_EndWhileWaitingAborts ==
    [][(/\ cmd'.op = "end"
        /\ cmd'.tid \in Begun
        /\ transactions[cmd'.tid].status = "waiting")
       => /\ transactions'[cmd'.tid].status = "aborted"
          /\ \A i \in 1..Len(waiting_operations') :
                 waiting_operations'[i].transaction_id # cmd'.tid
          /\ sites' = sites
          /\ variable_commit_history' = variable_commit_history
          /\ output' = <<Line("aborts", cmd'.tid, 0, 0, {})>>]_vars

\* C15 witness: end has aborted a waiting transaction while a site hosting
\* the awaited variable was up: the site has neither failed nor recovered
\* since the transaction began.
C15_Witness ==
    /\ cmd.op = "end"
    /\ cmd.tid \in Begun
    /\ transactions[cmd.tid].status = "aborted"
    /\ transactions[cmd.tid].abort_reason = "waiting_ended"
    /\ transactions[cmd.tid].waiting_for # None
    /\ \E s \in get_up_sites_for_variable(sites, transactions[cmd.tid].waiting_for) :
           \A i \in 1..Len(sites[s].failure_history) :
               LET r == sites[s].failure_history[i] IN
               /\ r.fail_time < transactions[cmd.tid].start_time
               /\ r.recover_time # None
               /\ r.recover_time < transactions[cmd.tid].start_time
\* the time of the site's latest recorded recovery, 0 when it has none
LatestRecovery(site) ==
    LET R == {site.failure_history[i].recover_time :
                 i \in 1..Len(site.failure_history)} \ {None}
    IN IF R = {} THEN 0 ELSE CHOOSE r \in R : \A q \in R : q <= r

\* the site stores a version of x committed after its latest recovery
WrittenSinceRecovery(site, x) ==
    \E i \in 1..Len(site.variables[x].versions) :
        site.variables[x].versions[i].commit_time > LatestRecovery(site)

\* a transaction that began after a commit of x at an up, recovered site
\* that followed the site's latest recovery can read x there
ReadableAfterCommit(sm, txns) ==
    \A s \in Sites : \A x \in DOMAIN sm[s].variables : \A t \in DOMAIN txns :
        (/\ is_variable_replicated(x)
         /\ sm[s].is_up
         /\ LatestRecovery(sm[s]) > 0
         /\ \E i \in 1..Len(sm[s].variables[x].versions) :
                /\ sm[s].variables[x].versions[i].commit_time > LatestRecovery(sm[s])
                /\ sm[s].variables[x].versions[i].commit_time < txns[t].start_time)
        => can_read_variable(sm[s], x, txns[t].start_time)[1]

\* C16: a read of a replicated variable x is served from a recovered site s
\* to a transaction that began at or after s's latest recovery only if s
\* stores a version of x committed after that recovery; and once s stores
\* such a version, every transaction that began after its commit can read x
\* from s.
C16_RecoveredSiteGating ==
    [][/\ \A t \in Begun : \A x \in DOMAIN transactions'[t].read_set :
              LET s == transactions'[t].read_set[x].site IN
              (/\ x \notin DOMAIN transactions[t].read_set
               /\ is_variable_replicated(x)
               /\ LatestRecovery(sites'[s]) > 0
               /\ transactions[t].start_time >= LatestRecovery(sites'[s]))
              => WrittenSinceRecovery(sites'[s], x)
       /\ ReadableAfterCommit(sites', transactions')]_vars
\* the versions of x at the site that a snapshot taken at start may see,
\* newest first: those with the greatest commit_time not after start
NewestAt(site, x, start) ==
    {v \in {site.variables[x].versions[i] : i \in 1..Len(site.variables[x].versions)} :
        /\ v.commit_time <= start
        /\ \A j \in 1..Len(site.variables[x].versions) :
               site.variables[x].versions[j].commit_time <= start
                   => site.variables[x].versions[j].commit_time <= v.commit_time}

\* C17: a read of a non-replicated variable that the transaction has not
\* written, issued while the variable's host is up, prints the value of the
\* host's newest version committed at or before the transaction's start,
\* whatever the host's failure history and readability flag, and leaves the
\* transaction's status as it was (it is neither parked nor aborted).
C17_NonReplicatedReadable ==
    [][(/\ cmd'.op = "R"
        /\ cmd'.tid \in Begun
        /\ transactions[cmd'.tid].status # "aborted"
        /\ ~is_variable_replicated(cmd'.var)
        /\ cmd'.var \notin DOMAIN transactions[cmd'.tid].write_set
        /\ get_up_sites_for_variable(sites, cmd'.var) # {})
       => /\ \E s \in get_sites_for_variable(cmd'.var) :
                 \E v \in NewestAt(sites[s], cmd'.var, transactions[cmd'.tid].start_time) :
                     /\ output' = <<Line("value", "", cmd'.var, v.value, {})>>
                     /\ transactions'[cmd'.tid].read_set[cmd'.var].value = v.value
          /\ transactions'[cmd'.tid].status = transactions[cmd'.tid].status
          /\ waiting_operations' = waiting_operations]_vars

\* C17 witness: a transaction that began while the host of a non-replicated
\* variable was down has just read the variable from the recovered host for
\* the first time.
C17_Witness ==
    /\ cmd.op = "R"
    /\ cmd.tid \in Begun
    /\ ~is_variable_replicated(cmd.var)
    /\ transactions[cmd.tid].status = "active"
    /\ cmd.var \in DOMAIN transactions[cmd.tid].read_set
    /\ output = <<Line("value", "", cmd.var,
                       transactions[cmd.tid].read_set[cmd.var].value, {})>>
    /\ LET site == sites[transactions[cmd.tid].read_set[cmd.var].site] IN
       /\ site.is_up
       /\ \E i \in 1..Len(site.failure_history) :
              /\ site.failure_history[i].fail_time < transactions[cmd.tid].start_time
              /\ site.failure_history[i].recover_time = current_time - 1
\* C18 as stated: the readability flag of a replicated variable at a site is
\* true exactly when the site stores a version committed after the site's
\* latest recovery, that time being 0 for a site that never recovered.
C18_FlagIffWrittenSinceRecovery ==
    \A s \in Sites : \A x \in DOMAIN sites[s].variables :
        is_variable_replicated(x)
            => (sites[s].variables[x].is_readable <=> WrittenSinceRecovery(sites[s], x))

\* C18 amended: at a site whose failure history records a recovery, the flag
\* of a replicated variable is true exactly when the site stores a version
\* committed after the latest recorded recovery; a flag, true at
\* initialisation, turns false only in a recover step naming its site and
\* true only in a step that installs a version of its variable there.
C18_FlagTracksRecovery ==
    [][\A s \in Sites : \A x \in DOMAIN sites[s].variables :
          is_variable_replicated(x) =>
            /\ LatestRecovery(sites'[s]) > 0
                   => (sites'[s].variables[x].is_readable
                           <=> WrittenSinceRecovery(sites'[s], x))
            /\ (sites[s].variables[x].is_readable /\ ~sites'[s].variables[x].is_readable)
                   => (cmd'.op = "recover" /\ cmd'.site = s)
            /\ (~sites[s].variables[x].is_readable /\ sites'[s].variables[x].is_readable)
                   => Len(sites'[s].variables[x].versions)
                          = Len(sites[s].variables[x].versions) + 1]_vars

\* C18 witness: a site that has recovered stores a version of a replicated
\* variable committed after the recovery, and the flag is set again.
C18_Witness ==
    \E s \in Sites : \E x \in DOMAIN sites[s].variables :
        /\ is_variable_replicated(x)
        /\ LatestRecovery(sites[s]) > 0
        /\ sites[s].variables[x].is_readable
        /\ WrittenSinceRecovery(sites[s], x)
\* the failure history reads as disjoint intervals in increasing order, only
\* the last of which may be open, and the site is down exactly when one is
WellFormedHistory(site) ==
    LET h == site.failure_history IN
    /\ \A i \in 1..Len(h) :
           h[i].recover_time # None => h[i].fail_time < h[i].recover_time
    /\ \A i, j \in 1..Len(h) :
           i < j => /\ h[i].recover_time # None
                    /\ h[i].recover_time <= h[j].fail_time
    /\ (\E i \in 1..Len(h) : h[i].recover_time = None) <=> ~site.is_up

\* C19: after any sequence of fail and recover commands every site's failure
\* history is a list of non-overlapping, strictly increasing intervals with
\* at most one open interval, open exactly when the site is down, and a fail
\* naming a site that is already down leaves the history unchanged.
C19_FailureHistoryWellFormed ==
    [][/\ \A s \in Sites : WellFormedHistory(sites'[s])
       /\ (cmd'.op = "fail" /\ ~sites[cmd'.site].is_up)
              => sites'[cmd'.site].failure_history = sites[cmd'.site].failure_history]_vars
\* C20: no stored edge has an aborted transaction as source or target and no
\* queue record names an aborted transaction.
C20_AbortedPurged ==
    \A t \in Begun :
        transactions[t].status = "aborted"
            => /\ \A e \in edges : e[1] # t /\ e[2] # t
               /\ \A i \in 1..Len(waiting_operations) :
                      waiting_operations[i].transaction_id # t

\* C20 witness: end has just aborted a transaction because a site it wrote
\* to failed, while an active transaction holds a read of a variable it
\* wrote, so that an edge between the two was stored before the abort.
C20_Witness ==
    /\ cmd.op = "end"
    /\ cmd.tid \in Begun
    /\ transactions[cmd.tid].status = "aborted"
    /\ transactions[cmd.tid].abort_reason = "site_failed"
    /\ \E o \in Begun \ {cmd.tid} :
           /\ transactions[o].status = "active"
           /\ \E x \in DOMAIN transactions[cmd.tid].write_set :
                  x \in DOMAIN transactions[o].read_set
    /\ edges = {}
\* everything but the clock, the command and its output
state == <<sites, transactions, waiting_operations, variable_commit_history,
           edges, snapshot_reads, served>>

\* C21: an aborted transaction stays aborted, with all its fields, under
\* every command; R and W naming it print nothing and change nothing but
\* the clock, and end naming it only prints the abort again.
C21_AbortIsTerminal ==
    [][/\ \A t \in Begun :
              transactions[t].status = "aborted"
                  => /\ t \in DOMAIN transactions'
                     /\ transactions'[t] = transactions[t]
       /\ (/\ cmd'.op \in {"R", "W", "end"}
           /\ cmd'.tid \in Begun
           /\ transactions[cmd'.tid].status = "aborted")
          => /\ UNCHANGED state
             /\ current_time' = current_time + 1
             /\ output' = IF cmd'.op = "end"
                          THEN <<Line("aborts", cmd'.tid, 0, 0, {})>>
                          ELSE <<>>]_vars

\* C21 witness: a W naming an aborted transaction has just been processed.
C21_Witness ==
    /\ cmd.op = "W"
    /\ cmd.tid \in Begun
    /\ transactions[cmd.tid].status = "aborted"
    /\ cmd.var \notin DOMAIN transactions[cmd.tid].write_set
    /\ output = <<>>
\* the commits the state records: the commit history and the version lists
StoredVersions ==
    UNION {UNION {{sites[s].variables[x].versions[i] :
                       i \in 1..Len(sites[s].variables[x].versions)} :
                  x \in DOMAIN sites[s].variables} : s \in Sites}

CommitStamps ==
    {<<"commit", c[2], c[1]>> :
         c \in UNION {{variable_commit_history[x][i] :
                           i \in 1..Len(variable_commit_history[x])} : x \in Vars}}
    \cup {<<"commit", v.transaction_id, v.commit_time>> :
              v \in {w \in StoredVersions : w.commit_time > 0}}

\* every timestamp the state records, with the command that recorded it
Stamps ==
    {<<"start", t, transactions[t].start_time>> : t \in Begun}
    \cup UNION {{<<"fail", <<s, i>>, sites[s].failure_history[i].fail_time>> :
                     i \in 1..Len(sites[s].failure_history)} : s \in Sites}
    \cup UNION {{<<"recover", <<s, i>>, sites[s].failure_history[i].recover_time>> :
                     i \in {j \in 1..Len(sites[s].failure_history) :
                                sites[s].failure_history[j].recover_time # None}} : s \in Sites}
    \cup CommitStamps

StampsDistinct ==
    /\ \A a \in Stamps, b \in Stamps : a # b => a[3] # b[3]
    /\ \A a \in Stamps : a[3] \in 1..current_time
    /\ \A a \in CommitStamps : a[2] \in Begun /\ transactions[a[2]].start_time < a[3]

\* C22: every input line, blank and comment lines included, advances the
\* clock by exactly one and nothing else does; the start, fail, recover and
\* commit times recorded by distinct commands are pairwise distinct; a
\* transaction commits later than it started; a variable has at most one
\* committed writer per commit time.
C22_ClockAndStamps ==
    /\ [][/\ current_time' = current_time + 1
          /\ \A t \in Begun :
                 output' = <<Line("commits", t, 0, 0, {})>>
                     => transactions[t].start_time < current_time']_vars
    /\ [](StampsDistinct)

\* C22 witness: a start, a fail and a commit time are on record and a blank
\* or comment line has just been processed.
C22_Witness ==
    /\ cmd.op = "comment"
    /\ CommitStamps # {}
    /\ \E s \in Sites : sites[s].failure_history # <<>>

VersionLists(sm) ==
    [s \in Sites |-> [x \in DOMAIN sm[s].variables |-> sm[s].variables[x].versions]]

\* C23: fail(k) and recover(k) leave every version list of every site as it
\* was, and after recover(k) every non-replicated variable hosted at k can
\* be read there again by any transaction.
C23_FailRecoverKeepVersions ==
    [][/\ cmd'.op \in {"fail", "recover"} => VersionLists(sites') = VersionLists(sites)
       /\ cmd'.op = "recover"
          => \A x \in DOMAIN sites'[cmd'.site].variables :
                 ~is_variable_replicated(x)
                     => \A start \in 0..current_time' :
                            LET r == can_read_variable(sites'[cmd'.site], x, start)
                                vs == sites[cmd'.site].variables[x].versions
                            IN /\ r[1]
                               /\ r[2] = vs[FirstVersionAt(vs, start)].value]_vars

\* C23 witness: site k failed and recovered in two consecutive commands
\* while holding a committed version of a non-replicated variable.
C23_Witness ==
    /\ cmd.op = "recover"
    /\ LET h == sites[cmd.site].failure_history IN
       /\ h # <<>>
       /\ h[Len(h)].recover_time = current_time
       /\ h[Len(h)].fail_time = current_time - 1
    /\ \E x \in DOMAIN sites[cmd.site].variables :
           /\ ~is_variable_replicated(x)
           /\ Len(sites[cmd.site].variables[x].versions) > 1
\* the version of x at site s with the greatest commit time
NewestStored(s, x) ==
    LET vs == sites[s].variables[x].versions IN
    CHOOSE v \in {vs[i] : i \in 1..Len(vs)} :
        \A i \in 1..Len(vs) : vs[i].commit_time <= v.commit_time

Hosted == {p \in Sites \X Vars : p[2] \in DOMAIN sites[p[1]].variables}

\* C24: dump() changes nothing but the clock; it reports, for every site,
\* up or down, and every variable stored there, readable or not, exactly
\* the value of the newest stored version; a dump right after a dump
\* reports the same.
C24_DumpReadsOnly ==
    [][cmd'.op = "dump"
       => /\ UNCHANGED state
          /\ current_time' = current_time + 1
          /\ Len(output') = Cardinality(Hosted)
          /\ \A p \in Hosted :
                 \E i \in 1..Len(output') :
                     output'[i] = Line("dump", "", p[2], NewestStored(p[1], p[2]).value, {p[1]})
          /\ cmd.op = "dump" => output' = output]_vars

\* C24 witness: a dump has reported a site that is down and holds an older
\* value of a replicated variable than a site that is up.
C24_Witness ==
    /\ cmd.op = "dump"
    /\ \E s \in Sites, u \in Sites, x \in Vars :
           /\ ~sites[s].is_up
           /\ sites[u].is_up
           /\ is_variable_replicated(x)
           /\ \E i \in 1..Len(output), j \in 1..Len(output) :
                  /\ output[i].sites = {s} /\ output[i].var = x
                  /\ output[j].sites = {u} /\ output[j].var = x
                  /\ output[i].value # output[j].value
\* the nodes reached from Y over stored edges when only committed nodes are
\* left again
RECURSIVE CommittedReach(_)
CommittedReach(S) ==
    LET N == S \cup {e[2] : e \in {d \in edges : d[1] \in S /\ d[1] \in Committed}} IN
    IF N = S THEN S ELSE CommittedReach(N)

\* Y reaches X: Y = X, or a path over committed nodes ends in X, or ends in
\* a committed node that X's snapshot-reads map names as a writer
ReachesPivotSource(Y, X) ==
    \/ Y = X
    \/ X \in CommittedReach({Y})
    \/ \E n \in CommittedReach({Y}) \cap Committed :
           \E x \in DOMAIN transactions[X].read_set :
               x \in DOMAIN snapshot_reads[X] /\ snapshot_reads[X][x] = n

PivotOf(T) ==
    {p \in Begun \X Begun :
        /\ <<p[1], T>> \in edges
        /\ <<T, p[2]>> \in edges
        /\ transactions[p[2]].status = "committed"
        /\ transactions[p[1]].status \in {"committed", "active"}
        /\ ReachesPivotSource(p[2], p[1])}

PassesFirstTwoRules(T) ==
    /\ ~SiteFailedAfterWrite(sites, transactions[T])
    /\ ~FirstCommitterWins(variable_commit_history, T, transactions[T])

CommittedWritersFor(T) ==
    {C \in Committed \ {T} :
        \E x \in DOMAIN transactions[T].write_set :
            \E i \in 1..Len(variable_commit_history[x]) :
                variable_commit_history[x][i][2] = C}

\* C26: end(T) of a transaction that passes the site-failure and
\* First-Committer-Wins rules aborts T when a different committed transaction
\* with a commit of a variable T writes is reachable from T over stored RW
\* edges.
C26_WWClosureAborts ==
    [][\A T \in Begun :
           (/\ cmd' = Command("end", T, 0, 0, 0)
            /\ PassesFirstTwoRules(T)
            /\ CommittedWritersFor(T) \cap ReachSet(edges, {T}) # {})
           => /\ transactions'[T].status = "aborted"
              /\ output' = <<Line("aborts", T, 0, 0, {})>>
              /\ VersionLists(sites') = VersionLists(sites)]_vars

\* C26 witness: T has just been aborted at its end for a cycle although no
\* committed transaction wrote anything T read (T is no pivot): C committed
\* a variable T writes before T began, and a third, still active transaction
\* A carries the path T -> A -> C.
C26_Witness ==
    /\ cmd.op = "end"
    /\ cmd.tid \in Begun
    /\ transactions[cmd.tid].abort_reason = "ssi_cycle"
    /\ \A Y \in Committed :
           DOMAIN transactions[Y].write_set \cap DOMAIN transactions[cmd.tid].read_set = {}
    /\ \E C \in CommittedWritersFor(cmd.tid), A \in Begun \ {cmd.tid} :
           /\ transactions[A].status = "active"
           /\ <<A, C>> \in edges
           /\ DOMAIN transactions[cmd.tid].read_set \cap DOMAIN transactions[A].write_set # {}
Uncommitted(t) == transactions[t].status \in {"active", "waiting"}

\* C27: for any two distinct transactions A and B that are both active or
\* waiting, a variable in A.read_set and in B.write_set has the edge
\* A -> B stored.
C27_RWEdgesComplete ==
    \A A \in Begun, B \in Begun :
        (/\ A # B
         /\ Uncommitted(A)
         /\ Uncommitted(B)
         /\ DOMAIN transactions[A].read_set \cap DOMAIN transactions[B].write_set # {})
        => <<A, B>> \in edges
\* C28: every edge a command inserts joins two distinct transactions that
\* were both active or waiting when the command was issued, the source
\* having read a variable the target has written; no self-edge is stored.
C28_EdgesBetweenLive ==
    [][/\ \A e \in edges' \ edges :
              /\ e[1] # e[2]
              /\ e[1] \in Begun /\ Uncommitted(e[1])
              /\ e[2] \in Begun /\ Uncommitted(e[2])
              /\ DOMAIN transactions'[e[1]].read_set
                     \cap DOMAIN transactions'[e[2]].write_set # {}
       /\ \A e \in edges' :
              /\ e[1] # e[2]
              /\ DOMAIN transactions'[e[1]].read_set
                     \cap DOMAIN transactions'[e[2]].write_set # {}]_vars
\* (1) no site T wrote to has a failure after T's first write to it
NoFailureAfterWrite(T) ==
    \A s \in transactions[T].sites_written :
        \A i \in 1..Len(sites[s].failure_history) :
            /\ s \in DOMAIN transactions[T].site_write_time
            /\ sites[s].failure_history[i].fail_time <= transactions[T].site_write_time[s]

\* (2) no variable T wrote has a commit by another transaction after T began
NoLaterCommit(T) ==
    \A x \in DOMAIN transactions[T].write_set :
        \A i \in 1..Len(variable_commit_history[x]) :
            variable_commit_history[x][i][2] # T
                => variable_commit_history[x][i][1] <= transactions[T].start_time

\* (3) T has no stored edge
NoEdge(T) == \A e \in edges : e[1] # T /\ e[2] # T

\* C29: end(T) of an active T commits T when no site T wrote to failed after
\* T's first write to it, no variable T wrote was committed by another
\* transaction after T began, and T has no stored RW edge.
C29_NoSpuriousAbort ==
    [][\A T \in Begun :
           (/\ cmd' = Command("end", T, 0, 0, 0)
            /\ transactions[T].status = "active"
            /\ NoFailureAfterWrite(T)
            /\ NoLaterCommit(T)
            /\ NoEdge(T))
           => /\ transactions'[T].status = "committed"
              /\ output' = <<Line("commits", T, 0, 0, {})>>]_vars

\* C29 witness: T has just committed a write made at an up site although a
\* site it only read from failed after T began.
C29_Witness ==
    /\ cmd.op = "end"
    /\ output = <<Line("commits", cmd.tid, 0, 0, {})>>
    /\ transactions[cmd.tid].write_set # <<>>
    /\ \A x \in DOMAIN transactions[cmd.tid].write_set :
           transactions[cmd.tid].write_set[x].sites # {}
    /\ \E x \in DOMAIN transactions[cmd.tid].read_set :
           LET s == transactions[cmd.tid].read_set[x].site IN
           /\ s \notin transactions[cmd.tid].sites_written
           /\ \E i \in 1..Len(sites[s].failure_history) :
                  sites[s].failure_history[i].fail_time > transactions[cmd.tid].start_time
AbortCauses == {"site_failed", "first_committer", "ssi_cycle", "waiting_ended", "no_valid_site"}

\* the cause end(T) has to record for an active T that it aborts: that of
\* the first rule, in the order site failure, First-Committer-Wins, cycle,
\* that fails
FirstFailingRule(T) ==
    IF ~NoFailureAfterWrite(T) THEN "site_failed"
    ELSE IF ~NoLaterCommit(T) THEN "first_committer"
    ELSE "ssi_cycle"

\* C30: end(T) on an active T aborts T when the site-failure rule or
\* First-Committer-Wins fails, and whenever it aborts T the recorded cause
\* is that of the first failing rule in the order site failure,
\* First-Committer-Wins, dangerous cycle; an aborted transaction carries
\* exactly one cause and a transaction that is not aborted none.
C30_ValidationOrder ==
    /\ [][\A T \in Begun :
              (cmd' = Command("end", T, 0, 0, 0) /\ transactions[T].status = "active")
              => /\ (~NoFailureAfterWrite(T) \/ ~NoLaterCommit(T))
                        => transactions'[T].status = "aborted"
                 /\ transactions'[T].status = "aborted"
                        => transactions'[T].abort_reason = FirstFailingRule(T)]_vars
    /\ [](\A T \in Begun :
              IF transactions[T].status = "aborted"
              THEN transactions[T].abort_reason \in AbortCauses
              ELSE transactions[T].abort_reason = "")

\* C30 witness: T has just been aborted at its end with the site failure as
\* its cause although another transaction, with which T had RW edges in both
\* directions, committed a variable T wrote after T began.
C30_Witness ==
    /\ cmd.op = "end"
    /\ cmd.tid \in Begun
    /\ transactions[cmd.tid].abort_reason = "site_failed"
    /\ ~NoLaterCommit(cmd.tid)
    /\ \E Y \in Committed :
           /\ DOMAIN transactions[cmd.tid].read_set \cap DOMAIN transactions[Y].write_set # {}
           /\ DOMAIN transactions[Y].read_set \cap DOMAIN transactions[cmd.tid].write_set # {}
\* C31: end(T) on an active or waiting T leaves T committed or aborted, and
\* on every reachable edge graph, cyclic ones included, both reachability
\* searches end with the answer of the graph's reachability relation, having
\* visited only transactions.
C31_EndTerminates ==
    /\ [][\A T \in Begun :
              (cmd' = Command("end", T, 0, 0, 0) /\ Uncommitted(T))
              => transactions'[T].status \in {"committed", "aborted"}]_vars
    /\ [](\A a \in Begun, b \in Begun :
              LET r == _can_reach_from_tid(edges, a, b, {})
                  v == _can_reach_via_committed(transactions, edges, snapshot_reads, a, b, {})
              IN /\ r.found <=> b \in ReachSet(edges, {a})
                 /\ r.visited \subseteq Begun
                 /\ v.found <=> ReachesPivotSource(a, b)
                 /\ v.visited \subseteq Begun)

\* C31 witness: end(T) has just committed T while the stored edges T -> Y
\* and Y -> T form a cycle through T.
C31_Witness ==
    /\ cmd.op = "end"
    /\ cmd.tid \in Committed
    /\ output = <<Line("commits", cmd.tid, 0, 0, {})>>
    /\ \E Y \in Begun : <<cmd.tid, Y>> \in edges /\ <<Y, cmd.tid>> \in edges
\* C32: fail(k) changes nothing but site k's liveness flag and failure
\* history; recover(k) changes no transaction's status except from waiting
\* to active.
C32_FailRecoverFrame ==
    [][/\ cmd'.op = "fail"
          => /\ UNCHANGED <<transactions, edges, waiting_operations,
                            variable_commit_history, snapshot_reads>>
             /\ \A s \in Sites \ {cmd'.site} : sites'[s] = sites[s]
             /\ sites'[cmd'.site].variables = sites[cmd'.site].variables
       /\ cmd'.op = "recover"
          => /\ DOMAIN transactions' = Begun
             /\ \A t \in Begun :
                    \/ transactions'[t].status = transactions[t].status
                    \/ /\ transactions[t].status = "waiting"
                       /\ transactions'[t].status = "active"]_vars

\* C32 witness: recover(k) has just served a parked read, its transaction
\* being active again, while site k has a failure on record.
C32_Witness ==
    /\ cmd.op = "recover"
    /\ sites[cmd.site].failure_history # <<>>
    /\ \E i \in 1..Len(output) : output[i].kind = "value"
    /\ \E t \in Begun : /\ transactions[t].status = "active"
                        /\ \E x \in DOMAIN transactions[t].read_set :
                               transactions[t].read_set[x].site = cmd.site
\* C33: R, W or end naming a transaction that was never begun changes
\* nothing but the clock: no transaction is created and no site store, edge,
\* commit history or queue record changes.
C33_UnknownTransaction ==
    [][(cmd'.op \in {"R", "W", "end"} /\ cmd'.tid \notin Begun)
       => /\ UNCHANGED state
          /\ DOMAIN transactions' = Begun
          /\ current_time' = current_time + 1
          /\ output' = <<Line("error", cmd'.tid, 0, 0, {})>>]_vars

\* C33 witness: a W naming a transaction that was never begun has just been
\* processed while another transaction is active.
C33_Witness ==
    /\ cmd.op = "W"
    /\ cmd.tid \notin Begun
    /\ \E t \in Begun : transactions[t].status = "active"
    /\ output = <<Line("error", cmd.tid, 0, 0, {})>>
\* C34: at every site the version list of every hosted variable is in
\* strictly descending commit_time, ends with the initial version, and a
\* command changes it only by putting versions in front of it.
C34_VersionListsOrdered ==
    /\ [](\A p \in Hosted :
              LET vs == sites[p[1]].variables[p[2]].versions IN
              /\ vs # <<>>
              /\ vs[Len(vs)] = InitVersion(p[2])
              /\ \A i \in 1..(Len(vs) - 1) : vs[i].commit_time > vs[i + 1].commit_time)
    /\ [][\A p \in Hosted :
              LET vs == sites[p[1]].variables[p[2]].versions
                  ws == sites'[p[1]].variables[p[2]].versions
              IN /\ Len(ws) >= Len(vs)
                 /\ SubSeq(ws, Len(ws) - Len(vs) + 1, Len(ws)) = vs]_vars

\* C34 witness: a variable has, at one site, two committed versions by
\* different transactions in front of the initial one.
C34_Witness ==
    \E p \in Hosted :
        LET vs == sites[p[1]].variables[p[2]].versions IN
        /\ Len(vs) >= 3
        /\ vs[1].transaction_id # vs[2].transaction_id
\* the instants of the failure interval [fail_time, recover_time) of a
\* record, up to the horizon; an open record has no end
DownInstants(record, horizon) ==
    {t \in 0..horizon :
        /\ record.fail_time <= t
        /\ (record.recover_time = None \/ t < record.recover_time)}

Horizon == current_time + 1

\* C35: for the failure history of every site and all times a < b,
\* was_up_continuously(a, b) is true iff no failure interval
\* [fail_time, recover_time) of the history holds an instant of [a, b), the
\* instant a included.
C35_WasUpContinuously ==
    \A s \in Sites :
        \A a \in 0..Horizon, b \in 0..Horizon :
            a < b =>
                (was_up_continuously(sites[s], a, b)
                 <=> \A i \in 1..Len(sites[s].failure_history) :
                         DownInstants(sites[s].failure_history[i], Horizon) \cap (a..(b - 1)) = {})

\* C35 witness: a site has failed twice and recovered in between; the answer
\* is true from a recovery time on and up to a failure time, false from a
\* failure time on, across the outage and into the open outage.
C35_Witness ==
    \E s \in Sites :
        LET h == sites[s].failure_history IN
        /\ Len(h) = 2
        /\ h[1].recover_time # None
        /\ h[2].recover_time = None
        /\ h[1].recover_time + 1 < h[2].fail_time
        /\ was_up_continuously(sites[s], h[1].recover_time, h[2].fail_time)
        /\ was_up_continuously(sites[s], 0, h[1].fail_time)
        /\ ~was_up_continuously(sites[s], h[1].fail_time, h[1].fail_time + 1)
        /\ ~was_up_continuously(sites[s], 0, h[1].recover_time)
        /\ ~was_up_continuously(sites[s], h[1].recover_time, Horizon)
\* C36: a committed transaction stays committed under every command, and a
\* command naming it installs no version, appends nothing to the commit
\* history and inserts no edge.
C36_CommitIsTerminal ==
    [][/\ \A t \in Committed : transactions'[t].status = "committed"
       /\ (cmd'.op \in {"R", "W", "end"} /\ cmd'.tid \in Committed)
          => /\ VersionLists(sites') = VersionLists(sites)
             /\ variable_commit_history' = variable_commit_history
             /\ edges' \subseteq edges]_vars
RecordsOf(t) == {i \in 1..Len(waiting_operations) : waiting_operations[i].transaction_id = t}

\* C37: a transaction is waiting iff the queue holds a record for it; a
\* waiting transaction has exactly one record, for the variable in its
\* waiting_for; waiting_for is unset for every transaction that is not
\* waiting.
C37_WaitingIffQueued ==
    /\ \A i \in 1..Len(waiting_operations) : waiting_operations[i].transaction_id \in Begun
    /\ \A t \in Begun :
           IF transactions[t].status = "waiting"
           THEN /\ Cardinality(RecordsOf(t)) = 1
                /\ \A i \in RecordsOf(t) :
                       waiting_operations[i].variable_name = transactions[t].waiting_for
           ELSE /\ RecordsOf(t) = {}
                /\ transactions[t].waiting_for = None
HistoryEntries(x) == {variable_commit_history[x][i] : i \in 1..Len(variable_commit_history[x])}

\* C38: commit_history[x] gains (c, T) exactly when T commits at time c with
\* x in its write_set; its entries are in strictly increasing commit_time;
\* every stored non-initial version of x is an entry of commit_history[x]
\* with the value its writer buffered, and every entry is stored as a
\* version at some site hosting x.
C38_HistoryMatchesStores ==
    /\ [][\A x \in Vars :
              variable_commit_history'[x] =
                  IF \E t \in Begun : /\ output' = <<Line("commits", t, 0, 0, {})>>
                                      /\ x \in DOMAIN transactions[t].write_set
                  THEN Append(variable_commit_history[x], <<current_time', cmd'.tid>>)
                  ELSE variable_commit_history[x]]_vars
    /\ [](\A x \in Vars :
              LET h == variable_commit_history[x] IN
              /\ \A i \in 1..(Len(h) - 1) : h[i][1] < h[i + 1][1]
              /\ \A e \in HistoryEntries(x) :
                     /\ e[2] \in Committed
                     /\ x \in DOMAIN transactions[e[2]].write_set
                     /\ \E s \in get_sites_for_variable(x) :
                            \E k \in 1..Len(sites[s].variables[x].versions) :
                                sites[s].variables[x].versions[k]
                                    = [value |-> transactions[e[2]].write_set[x].value,
                                       commit_time |-> e[1], transaction_id |-> e[2]]
              /\ \A s \in get_sites_for_variable(x) :
                     \A k \in 1..Len(sites[s].variables[x].versions) :
                         LET v == sites[s].variables[x].versions[k] IN
                         v.commit_time > 0
                             => /\ <<v.commit_time, v.transaction_id>> \in HistoryEntries(x)
                                /\ v.value = transactions[v.transaction_id].write_set[x].value)
\* the sites the claim speaks of: up, and never failed or holding x readable
Converged(s, x) ==
    /\ sites[s].is_up
    /\ (sites[s].failure_history = <<>> \/ sites[s].variables[x].is_readable)

\* C39: for every replicated variable x and every site that is up and has
\* never failed or has x's readability flag set, the newest version of x
\* stored there has the commit_time and writer of the last entry of
\* commit_history[x], or is the initial version when that history is empty;
\* any two such sites hold the same newest value.
C39_ReplicaConvergence ==
    \A x \in {y \in Vars : is_variable_replicated(y)} :
        /\ \A s \in {r \in get_sites_for_variable(x) : Converged(r, x)} :
               LET h == variable_commit_history[x]
                   v == NewestStored(s, x)
               IN IF h = <<>> THEN v = InitVersion(x)
                  ELSE /\ v.commit_time = h[Len(h)][1]
                       /\ v.transaction_id = h[Len(h)][2]
        /\ \A s \in get_sites_for_variable(x), r \in get_sites_for_variable(x) :
               (Converged(s, x) /\ Converged(r, x))
                   => NewestStored(s, x).value = NewestStored(r, x).value

\* C39 witness: a site that failed and recovered has taken a commit of a
\* replicated variable since, and so has a site that never failed.
C39_Witness ==
    \E x \in Vars, s \in Sites, r \in Sites :
        /\ is_variable_replicated(x)
        /\ variable_commit_history[x] # <<>>
        /\ sites[s].failure_history # <<>>
        /\ Converged(s, x)
        /\ sites[r].failure_history = <<>>
        /\ Converged(r, x)
\* the sites hosting x that are up
UpHosts(x) == {s \in Sites : x \in DOMAIN sites[s].variables /\ sites[s].is_up}

WriteBooks(txn) == <<txn.write_set, txn.sites_written, txn.site_write_time>>

\* C40: W(T,x,v) on a non-aborted T sets write_set[x] to v with the hosts of
\* x that are up, leaves the other entries, adds those hosts to
\* sites_written, stamps the clock on the hosts T had not written yet,
\* changes no site store and not T's status; no other command changes the
\* write bookkeeping of a transaction, which starts empty.
C40_WriteBookkeeping ==
    [][/\ \A T \in Begun :
              IF cmd' = Command("W", T, cmd'.var, cmd'.value, 0)
                 /\ transactions[T].status # "aborted"
              THEN LET old == transactions[T]
                       new == transactions'[T]
                       x == cmd'.var
                   IN /\ DOMAIN new.write_set = DOMAIN old.write_set \cup {x}
                      /\ new.write_set[x] = [value |-> cmd'.value, sites |-> UpHosts(x)]
                      /\ \A y \in DOMAIN old.write_set \ {x} : new.write_set[y] = old.write_set[y]
                      /\ new.sites_written = old.sites_written \cup UpHosts(x)
                      /\ DOMAIN new.site_write_time = new.sites_written
                      /\ \A s \in new.sites_written :
                             new.site_write_time[s] =
                                 IF s \in DOMAIN old.site_write_time
                                 THEN old.site_write_time[s] ELSE current_time'
                      /\ new.status = old.status
                      /\ sites' = sites
              ELSE WriteBooks(transactions'[T]) = WriteBooks(transactions[T])
       /\ \A T \in DOMAIN transactions' \ Begun :
              WriteBooks(transactions'[T]) = <<<<>>, {}, <<>>>>]_vars

\* C40 witness: T has just written a variable for the second time, with
\* fewer hosts up than at its first write: the entry names the hosts up now,
\* sites_written also the host that was up then.
C40_Witness ==
    /\ cmd.op = "W"
    /\ cmd.tid \in Begun
    /\ LET txn == transactions[cmd.tid] IN
       /\ txn.status = "active"
       /\ DOMAIN txn.write_set = {cmd.var}
       /\ txn.write_set[cmd.var].sites # {}
       /\ txn.write_set[cmd.var].sites # txn.sites_written
       /\ \E s \in txn.write_set[cmd.var].sites : txn.site_write_time[s] < current_time
====
